------------------------------ MODULE MCSignIn ------------------------------
(* SignIn with one page, or one page of each client. *)
EXTENDS SignIn

CONSTANTS new, old

TwoPages == {new, old}

Scene(methods, required, clients, webauthn, starts, wrong, rash, expire, lost) ==
    [password |-> "PASSWORD" \in methods, passkey |-> "PASSKEY" \in methods,
     totp |-> "TOTP" \in methods, required |-> required, verified |-> TRUE,
     client |-> [p \in TwoPages |-> IF p \notin clients THEN None
                                    ELSE IF p = new THEN "web" ELSE "legacy"],
     webauthn |-> webauthn, starts |-> starts, wrong |-> wrong, rash |-> rash,
     expire |-> expire, lost |-> lost]

\* Every kind of account on each page alone; a person who does not wait; both
\* pages at once; sessions that expire; connections that fail.
MixedScenes ==
         {Scene(methods, required, {p}, webauthn, 2, 1, FALSE, 0, 0) :
             methods \in SUBSET {"PASSWORD", "PASSKEY", "TOTP"}, required \in BOOLEAN,
             p \in TwoPages, webauthn \in BOOLEAN}
    \cup {Scene(Methods, TRUE, {p}, TRUE, 2, 2, TRUE, 0, 0) : p \in TwoPages}
    \cup {Scene({"PASSWORD", "TOTP"}, required, TwoPages, TRUE, 2, 1, FALSE, 0, 0) :
             required \in BOOLEAN}
    \cup {Scene({"PASSWORD", "TOTP"}, TRUE, {p}, TRUE, 2, 1, FALSE, 1, 1) : p \in TwoPages}
    \cup {[Scene({"PASSWORD"}, TRUE, {p}, TRUE, 1, 1, FALSE, 0, 0) EXCEPT !.verified = FALSE] :
             p \in TwoPages}
=============================================================================
