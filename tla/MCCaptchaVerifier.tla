------------------------- MODULE MCCaptchaVerifier -------------------------
(* CaptchaVerifier for TLC: captchas over HTTPS, over HTTP and disabled. *)
EXTENDS CaptchaVerifier

MCCaptchas ==
    {[enabled |-> TRUE, https |-> TRUE], [enabled |-> TRUE, https |-> FALSE],
     [enabled |-> FALSE, https |-> FALSE]}
=============================================================================
