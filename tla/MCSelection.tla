------------------------------ MODULE MCSelection ------------------------------
(***************************************************************************)
(* How a request comes to its connection, on small instances.  The parts   *)
(* share no state, and a behaviour is one of one part:                     *)
(*   checker   the polling checker of one connection, for every sequence   *)
(*             of probe results;                                           *)
(*   counts    the balancer's selection of usable connections, for every   *)
(*             mix of states of up to MaxTotal of them (enough for a       *)
(*             quarter to exceed three), against a definition that does    *)
(*             not follow the code's loop;                                 *)
(*   heap      a least-loaded picker;                                      *)
(*   power     power-of-two pickers;                                       *)
(*   turns     round-robin pickers.                                        *)
(***************************************************************************)
EXTENDS PollingChecker, Mixes, LeastLoaded, AtomicPickers

VARIABLE part

selectionVars == << part, vars, count, leastLoadedVars, powerVars, turnVars >>

SelectionInit ==
    /\ part \in { "checker", "counts", "heap", "power", "turns" }
    /\ Init
    /\ MixInit
    /\ HeapInit
    /\ PowerInit
    /\ TurnInit

SelectionNext ==
    \/ /\ part = "checker"
       /\ Next
       /\ UNCHANGED << part, count, leastLoadedVars, powerVars, turnVars >>
    \/ /\ part = "counts"
       /\ MixNext
       /\ UNCHANGED << part, vars, leastLoadedVars, powerVars, turnVars >>
    \/ /\ part = "heap"
       /\ HeapNext
       /\ UNCHANGED << part, vars, count, powerVars, turnVars >>
    \/ /\ part = "power"
       /\ PowerNext
       /\ UNCHANGED << part, vars, count, leastLoadedVars, turnVars >>
    \/ /\ part = "turns"
       /\ TurnNext
       /\ UNCHANGED << part, vars, count, leastLoadedVars, powerVars >>

SelectionSpec == SelectionInit /\ [][SelectionNext]_selectionVars

\* The connections and the requests are the same in every part.
Symmetry == Permutations(Conns) \cup Permutations(Users)

=============================================================================
