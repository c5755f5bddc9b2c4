---------------------------- MODULE MCProviders ----------------------------
(* Constants of the model-checking run of Providers. *)
EXTENDS Providers, TLC

CONSTANTS h1, h2, o1, o2, d1, d2, g1, g2, k1, k2, k3

MCMonths == o1 :> 1 @@ o2 :> 3

\* Two registries of one payroll run, or one sent again, are the same file.
MCKeyOf == d1 :> k1 @@ d2 :> k2 @@ g1 :> k3 @@ g2 :> k3

\* One caller sends a draft and reads balances, at each kind of adapter; two callers send
\* drafts, send files, or read balances at once.
MCUses == {[bank |-> "birbank", by |-> {h1}, sends |-> {d1}, reads |-> TRUE],
           [bank |-> "abb", by |-> {h1}, sends |-> {d1}, reads |-> TRUE],
           [bank |-> "abb", by |-> {h1, h2}, sends |-> {d1, d2}, reads |-> FALSE],
           [bank |-> "abb", by |-> {h1, h2}, sends |-> {g1, g2}, reads |-> FALSE],
           [bank |-> "abb", by |-> {h1, h2}, sends |-> {}, reads |-> TRUE]}
=============================================================================
