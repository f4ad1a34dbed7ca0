----------------------------- MODULE MCSessions -----------------------------
(* Instances of Sessions for TLC. *)
EXTENDS Sessions, TLC

CONSTANTS r1, r2, admin1, phone, laptop

\* One request at a time, from one browser.
OneBrowser == [r \in {r1} |-> phone]

\* Two browsers, one request each at a time.
PhoneAndLaptop == (r1 :> phone) @@ (r2 :> laptop)

\* Two requests at a time from the same browser.
TwoTabs == [r \in {r1, r2} |-> phone]
TabSymmetry == Permutations({r1, r2})
=============================================================================
