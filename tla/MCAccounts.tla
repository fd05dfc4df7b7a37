----------------------------- MODULE MCAccounts -----------------------------
(* Accounts with one or two browsers. *)
EXTENDS Accounts, TLC

CONSTANTS one, two

TwoBrowsers == {one, two}

Open(first, second) == [b \in TwoBrowsers |-> IF b = one THEN first ELSE second]

Up(f) == [op \in Ops |-> IF op \in DOMAIN f THEN f[op] ELSE 0]

Stranger == [client |-> Open("web", "closed"), exists |-> FALSE, forgot |-> FALSE,
             signedIn |-> {}, at |-> "home", may |-> Up([register |-> 2, verify |-> 2, login |-> 2]),
             visits |-> 0, slips |-> FALSE, hurry |-> FALSE, expire |-> 0]

Forgetful == [Stranger EXCEPT !.exists = TRUE, !.forgot = TRUE,
                              !.may = Up([forgot |-> 2, reset |-> 1, login |-> 1])]

Owner(first, second, at, may, expire) ==
    [Stranger EXCEPT !.exists = TRUE, !.at = at, !.may = may, !.expire = expire,
                     !.client = Open(first, second), !.slips = second = "closed",
                     !.signedIn = IF second = "closed" THEN {one} ELSE TwoBrowsers]

Kinds == {"web", "legacy"}

MixedScenes ==
         {[Stranger EXCEPT !.client = Open(x, y)] : x \in Kinds, y \in Kinds \cup {"closed"}}
    \cup {[Stranger EXCEPT !.client = Open(x, "closed"), !.hurry = TRUE] : x \in Kinds}
    \cup {[Forgetful EXCEPT !.client = Open(x, "closed"), !.expire = e] : x \in Kinds, e \in {0, 1}}
    \cup {[Owner(x, "closed", "settings",
                Up([change |-> 2, login |-> 2] @@ ("add key" :> 1) @@ ("delete key" :> 1)), 0)
               EXCEPT !.hurry = hurry] : x \in Kinds, hurry \in BOOLEAN}
    \cup {[Owner(x, y, "settings", Up("end session" :> 1), 1) EXCEPT !.visits = 1] :
             x \in Kinds, y \in Kinds}
    \cup {Owner(x, y, "settings", Up([login |-> 1, change |-> 2]), 1) : x \in Kinds, y \in Kinds}
    \cup {Owner(x, "closed", "security",
                Up([backup |-> 1, require |-> 1] @@ ("totp on" :> 1) @@ ("totp off" :> 1)), 0) : x \in Kinds}
    \cup {[Owner(x, "closed", "security", Up([begin |-> 1, remove |-> 1, logout |-> 1]), 1)
               EXCEPT !.visits = 1] : x \in Kinds}

\* One browser: a new backup code and a new password.
ChangeScenes == {[Owner(x, "closed", "security", Up([backup |-> 1, change |-> 1]), 0)
                     EXCEPT !.visits = 1] : x \in Kinds}
=============================================================================
