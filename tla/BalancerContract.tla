--------------------------- MODULE BalancerContract ---------------------------
(***************************************************************************)
(* What a transport pool relies on from its balancer: the only calls it    *)
(* receives create a connection it does not yet have, publish a picker     *)
(* over connections it still has, and remove a connection that the         *)
(* published picker can no longer choose.                                  *)
(***************************************************************************)
CONSTANT Conn   \* the connections that may ever be created

VARIABLES
    created,    \* the connections created so far
    poolConns,  \* those the pool has
    poolPicker  \* those the published picker chooses from; none: it fails

contractVars == << created, poolConns, poolPicker >>

ContractInit ==
    /\ created = {}
    /\ poolConns = {}
    /\ poolPicker = {}

Create(c) ==
    /\ c \notin created
    /\ created' = created \cup {c}
    /\ poolConns' = poolConns \cup {c}
    /\ UNCHANGED poolPicker

Publish(usable) ==
    /\ usable \subseteq poolConns
    /\ poolPicker' = usable
    /\ UNCHANGED << created, poolConns >>

Remove(c) ==
    /\ c \in poolConns
    /\ c \notin poolPicker
    /\ poolConns' = poolConns \ {c}
    /\ UNCHANGED << created, poolPicker >>

ContractNext ==
    \/ \E c \in Conn : Create(c) \/ Remove(c)
    \/ \E usable \in SUBSET poolConns : Publish(usable)

ContractSpec == ContractInit /\ [][ContractNext]_contractVars

=============================================================================
