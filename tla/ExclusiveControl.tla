-------------------------- MODULE ExclusiveControl --------------------------
(***************************************************************************)
(* What the daemon's browser control promises about one browser: at any    *)
(* moment the agent or one person is its holder, only the holder's input   *)
(* can be down, nobody takes it from a person who holds it, and it changes *)
(* hands with nothing held down.                                           *)
(***************************************************************************)
CONSTANTS
    Agent,          \* the agent, which holds the browser when no person does
    Controllers     \* the people who may take it

VARIABLES
    holder,         \* whose browser it is
    hands           \* whose keys or buttons may be down

controlVars == <<holder, hands>>

ControlInit == holder = Agent /\ hands = {}

(* The holder acts: something of its own may be down afterwards.           *)
Act ==
    /\ hands' \in SUBSET {holder}
    /\ UNCHANGED holder

(* A person takes the browser from the agent.                              *)
Take ==
    /\ holder = Agent
    /\ holder' \in Controllers
    /\ hands' = {}

(* It returns to the agent: released, lapsed or handed back.               *)
GiveBack ==
    /\ holder \in Controllers
    /\ holder' = Agent
    /\ hands' = {}

ControlNext == Act \/ Take \/ GiveBack

ControlSpec == ControlInit /\ [][ControlNext]_controlVars
=============================================================================
