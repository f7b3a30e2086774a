-------------------------------- MODULE Devices --------------------------------
(***************************************************************************)
(* What the server does with a host's reports: the alerts it raises        *)
(* (Alerts) and the two copies of the device it keeps (Presence), which    *)
(* share nothing here.  storing says which is at work in a behaviour.      *)
(***************************************************************************)
EXTENDS Alerts

\* See Presence; MaxEdits and MaxLosses are the MaxChanges and MaxFaults of it.
CONSTANTS Contents, Nothing, Reporters, Beaters, Admins, MaxEdits, MaxAccepts, MaxLosses

VARIABLES storing, files, mem, exported, row, call, spent, alone

Store == INSTANCE Presence WITH
    MaxChanges <- MaxEdits, MaxFaults <- MaxLosses,
    host <- files, file <- exported, job <- call
store == <<files, mem, exported, row, call, spent, alone>>

all == <<vars, storing, store>>

DevicesInit == storing \in BOOLEAN /\ Init /\ Store!Init

DevicesNext ==
    /\ UNCHANGED storing
    /\ \/ ~storing /\ Next /\ UNCHANGED store
       \/ storing /\ Store!Next /\ UNCHANGED vars

\* The fairness of each part, as it is stated there, while it works.
DevicesFairness ==
    /\ \A j \in Jobs : WF_vars(~storing /\ Begin(j)) /\ WF_vars(~storing /\ Work(j))
    /\ WF_store(storing /\ Store!Enroll)
    /\ \A j \in Store!Jobs :
        WF_store(storing /\ Store!Call(j)) /\ WF_store(storing /\ Store!Handle(j))

DevicesSpec == DevicesInit /\ [][DevicesNext]_all /\ DevicesFairness

\* Presence: what is checked of it.
AloneIsDurable == Store!AloneIsDurable
CopiesSettle == <>[](storing => Store!BothRight)
===============================================================================
