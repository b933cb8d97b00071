------------------------------ MODULE MCJeedom ------------------------------
(***************************************************************************)
(* Two Jeedom equipments of the same name: the first with two sensors of   *)
(* the same metric, the second with a button. Slug 1 is the name, 3 the    *)
(* name with the second equipment's id, 4 and 5 the name with the id of a  *)
(* sensor, 2 the zone the catalog may link.                                *)
(***************************************************************************)
EXTENDS JeedomBridge

MCSlugs == 1..5
MCBaseOf == <<1, 2, 1, 1, 1>>
MCSuffixed == <<3, 2, 3, 3, 3>>
MCNameWithId == (11 :> 4) @@ (12 :> 5)
MCCmds == {11, 12}
MCActs == {21}
MCEqs == {1, 2}
MCEqOf == (11 :> 1) @@ (12 :> 1) @@ (21 :> 2)
MCSignature == (11 :> "contact") @@ (12 :> "contact")
MCNames == {"mute"}
MCActName == (21 :> "mute")
MCNameOf == <<1, 1>>

\* The zone is not in the catalog, linked by the name, or by a command.
Zone(cmds, names) == [slug |-> 2, cmds |-> cmds, names |-> names \cup {2}]
Unlinked == {}
ByName == {Zone({}, {1})}
ByCommand == {Zone({11}, {})}
MCCatalogs == {Unlinked, ByName, ByCommand}
MCTwoCatalogs == {Unlinked, ByName}

Empty == [s \in MCSlugs |-> NoDevice]
\* Two devices that own the same command, as earlier versions left them.
Doubled == [Empty EXCEPT ![1] = [NewDevice EXCEPT !.cmds[11] = "discovered", !.jid = 1],
                         ![3] = [NewDevice EXCEPT !.cmds[11] = "event", !.cmds[12] = "event"]]
MCCaches == {Empty, Doubled}
MCOldCache == {Doubled}
\* One thing fails, a publication or a save, and four things happen in all (a
\* start has a replay of its own).
FourThings == /\ spent.failures + spent.lapses <= 1
              /\ spent.messages + spent.catalogs + spent.replays + spent.crashes
                 + spent.failures + spent.lapses <= 4
MCSymmetry == Permutations(Messages)
=============================================================================
