-------------------------- MODULE MCCommandEngine --------------------------
(* Instances of the command engine for TLC.                                *)
EXTENDS CommandEngine

CONSTANTS e1, e2, b1, b2

MCKind == {"wall", "door", "primitive"}
MCScope == {"Design", "Draft"}

CreateCmd(e) == [tool |-> "create", scope |-> "Design", id |-> e, body |-> b1]
PlaceCmd(e, w) == [tool |-> "place", scope |-> "Design", id |-> e, body |-> b1, host |-> w]
ModifyCmd(e) == [tool |-> "modify", scope |-> "Design", id |-> e, body |-> b2]
DeleteCmd(e) == [tool |-> "delete", scope |-> "Design", id |-> e]
LightingCmd == [tool |-> "set_lighting", scope |-> "Design"]
DrawCmd(e) == [tool |-> "draw", scope |-> "Draft", id |-> e, body |-> b1]
CopyCmd(e, s) == [tool |-> "copy", scope |-> "Draft", id |-> e, source |-> s, body |-> b1]
EditCmd(es) == [tool |-> "edit", scope |-> "Draft", ids |-> es, body |-> b2]

\* Commands without a parent: no DELETE of theirs can cascade.
FlatCommands == {CreateCmd(e1), CreateCmd(e2), ModifyCmd(e1), DeleteCmd(e1),
                 LightingCmd, DrawCmd(e2), EditCmd(<<e2, e2>>), CopyCmd(e1, e2)}
FlatBatches == {<<CreateCmd(e1), ModifyCmd(e1)>>,
                <<DeleteCmd(e1), CreateCmd(e1), CreateCmd(e2)>>}

\* A wall and a door on it.
HostedCommands == {CreateCmd(e1), PlaceCmd(e2, e1), ModifyCmd(e2),
                   DeleteCmd(e1), DeleteCmd(e2)}
HostedBatches == {<<CreateCmd(e1), PlaceCmd(e2, e1)>>,
                  <<DeleteCmd(e2), DeleteCmd(e1)>>,
                  <<DeleteCmd(e1), CreateCmd(e1)>>}
=============================================================================
