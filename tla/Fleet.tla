------------------------------- MODULE Fleet -------------------------------
(* What operators are promised of a fleet, without rollouts, pauses, streams  *)
(* or messages. A version is written once. Engines get it in at most two      *)
(* steps, a pilot and a release, and only while it is the newest of its       *)
(* group: what a newer version replaced reaches no further engine. An engine  *)
(* moves to newer versions it was given, and goes back only by a restart.     *)
(* Rollout implements this specification.                                     *)
EXTENDS Integers

CONSTANTS
    Groups,      \* engine groups
    Engines,     \* engines
    Contents,    \* what a version may say to a group
    NoContent,   \* the content of a version that has nothing for a group
    MaxVersion,  \* bound: the newest version
    Nothing      \* what an engine runs that has no version yet

VARIABLES
    newest,      \* the newest version
    content,     \* content[g][v]: what version v says to group g
    audience,    \* audience[g][v]: the engines that may be given version v of group g
    running,     \* running[e]: the version the process of e runs, and whose it is
    disk         \* disk[e]: the one it would start with

fleetVars == <<newest, content, audience, running, disk>>

Versions == 1..MaxVersion
Snapshots == [group : Groups, version : Versions]

FleetInit ==
    /\ newest = 1
    /\ \E c \in Contents :
         content = [g \in Groups |-> [v \in Versions |-> IF v = 1 THEN c ELSE NoContent]]
    /\ audience = [g \in Groups |-> [v \in Versions |-> IF v = 1 THEN Engines ELSE {}]]
    /\ running = [e \in Engines |-> Nothing]
    /\ disk = [e \in Engines |-> Nothing]

\* The next version has something for the groups G and is released at once to the groups R.
Publish(G, R, cs) ==
    /\ newest < MaxVersion
    /\ newest' = newest + 1
    /\ content' = [g \in Groups |->
           IF g \in G THEN [content[g] EXCEPT ![newest + 1] = cs[g]] ELSE content[g]]
    /\ audience' = [g \in Groups |->
           IF g \in R THEN [audience[g] EXCEPT ![newest + 1] = Engines] ELSE audience[g]]
    /\ UNCHANGED <<running, disk>>

\* Version v is the newest that has something for group g.
IsNewest(g, v) ==
    /\ content[g][v] # NoContent
    /\ \A w \in Versions : content[g][w] # NoContent => w <= v

\* A version nobody has is given to some engines.
Pilot(g, v, C) ==
    /\ IsNewest(g, v)
    /\ audience[g][v] = {}
    /\ audience' = [audience EXCEPT ![g][v] = C]
    /\ UNCHANGED <<newest, content, running, disk>>

\* A version is given to all engines.
ReleaseToAll(g, v) ==
    /\ IsNewest(g, v)
    /\ audience' = [audience EXCEPT ![g][v] = Engines]
    /\ UNCHANGED <<newest, content, running, disk>>

\* An engine takes up a newer version that it was given, and may fail to keep it on its disk.
Adopt(e, s, kept) ==
    /\ e \in audience[s.group][s.version]
    /\ s.version > running[e].version
    /\ running' = [running EXCEPT ![e] = s]
    /\ disk' = [disk EXCEPT ![e] = IF kept THEN s ELSE @]
    /\ UNCHANGED <<newest, content, audience>>

\* A process starts with what its disk has.
Restart(e) ==
    /\ running' = [running EXCEPT ![e] = disk[e]]
    /\ UNCHANGED <<newest, content, audience, disk>>

FleetNext ==
    \/ \E G \in SUBSET Groups : \E R \in SUBSET G : \E cs \in [Groups -> Contents] :
         Publish(G, R, cs)
    \/ \E g \in Groups, v \in Versions :
         \/ \E C \in SUBSET Engines : Pilot(g, v, C)
         \/ ReleaseToAll(g, v)
    \/ \E e \in Engines :
         \/ \E s \in Snapshots, kept \in BOOLEAN : Adopt(e, s, kept)
         \/ Restart(e)

FleetSpec == FleetInit /\ [][FleetNext]_fleetVars
============================================================================
