--------------------------- MODULE MC_AgentChannel --------------------------
(***************************************************************************)
(* Small instances of the agent channels: at most two hosts of one Action, *)
(* host1 its owner under generation 1, host2 its owner under generation 2  *)
(* or a second connection of the first owner.  A script says what each may *)
(* send as its n-th frame; sending less is always possible.                *)
(***************************************************************************)
EXTENDS AgentChannel, TLC

CONSTANTS host1, host2, action

Owner(g) == [action |-> action, generation |-> g]
Line(kind, owner) == [kind |-> kind, owner |-> owner, steps |-> 0, of |-> <<host1, 1>>]
Run(owner, n) == [Line("sequence", owner) EXCEPT !.steps = n]
Ask(owner, f) == [Line("op_status", owner) EXCEPT !.of = f]

(* The older owner runs two sequences; the newer one takes its Action over *)
(* with its hello, with its question or with a sequence of its own, and    *)
(* may send what is refused for its form or its place.                     *)
TakeoverRequests ==
    host1 :> (1 :> {Line("hello", Owner(1))}
              @@ 2 :> {Run(Owner(1), 2)}
              @@ 3 :> {Run(Owner(1), 1)})
 @@ host2 :> (1 :> {Line("hello", NoOwner), Line("hello", Owner(2))}
              @@ 2 :> {Run(Owner(2), 1), Ask(Owner(2), <<host1, 2>>),
                       Line("hello", Owner(2)), Line("invalid", Owner(2)),
                       Line("garbled", NoOwner)}
              @@ 3 :> {})

(* Two hosts want the browser at once, one of them without an owner.       *)
ContentionRequests ==
    host1 :> (1 :> {Line("hello", Owner(1))} @@ 2 :> {Run(Owner(1), 1)})
 @@ host2 :> (1 :> {Line("hello", NoOwner)} @@ 2 :> {Run(NoOwner, 1)})
=============================================================================
