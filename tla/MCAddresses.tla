------------------------------ MODULE MCAddresses ------------------------------
(***************************************************************************)
(* How a name becomes addresses, on small instances: either a polling      *)
(* resolver looks up, whatever the result (part "lookups"), or results go  *)
(* through the policy and the decorators ("results").                      *)
(***************************************************************************)
EXTENDS PollingResolver, Addresses

VARIABLE part

\* None, shorter than the minimum interval, longer.
SomeTTLs == { 0, 1, 3 }

\* The key leaves a byte over; an address does not complete the word it
\* begins, completes it, or goes beyond it, by a word or without.
SomeKey == << 7, 7, 7, 7, 7 >>

SomeText ==
    [a \in Address |->
        << << 1, 1 >>, << 1, 1, 1 >>, << 1, 1, 1, 2, 3, 1, 1 >>, << 1, 1, 1, 2, 2 >> >>[a]]

SomeScore == [a \in Address |-> << 3, 1, 4, 2 >>[a]]

AddressesAndLookups ==
    \/ /\ part = "lookups"
       /\ Next
       /\ UNCHANGED << part, addressVars >>
    \/ /\ part = "results"
       /\ AddressesNext
       /\ UNCHANGED << part, vars >>

MCInit ==
    /\ part \in { "lookups", "results" }
    /\ Init
    /\ AddressesInit

MCSpec == MCInit /\ [][AddressesAndLookups]_<< part, vars, addressVars >>

MCFairSpec == MCSpec /\ Fairness

=============================================================================
