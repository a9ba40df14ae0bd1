------------------------------ MODULE MCImages ------------------------------
(***************************************************************************)
(* The durable backend, the image service with its collector, and the      *)
(* relocation of records, each on its own: one of the parts runs, the      *)
(* others rest where they began.                                           *)
(*                                                                         *)
(* The backend serves two sessions over one record and one stream: both    *)
(* read a row before either writes it, one waits for the other's lock, a   *)
(* crash falls between any two statements.  The image has one record of    *)
(* each kind: an artifact and one that depends on it, a shape that the     *)
(* collector finds only through the object that has it, an environment     *)
(* rewritten with another layout.  A record moves between three nodes, the *)
(* least on which a tombstone points to a node the record has left.        *)
(***************************************************************************)
EXTENDS ImageStore, Relocation, LagrangeBackend, TLC

CONSTANTS Parts, MaxUnit, shape, object, artifact, dependent, env, plain, other, p, q, r

VARIABLE part

imagesVars == <<part, imageVars, relocationVars, lagrangeVars>>

MCIds == {shape, object, artifact, dependent, env}

Rec(id, kind, layout, refs) == [id |-> id, kind |-> kind, layout |-> layout, refs |-> refs]
Ref(role, id) == [role |-> role, id |-> id]

ShapeRecord == Rec(shape, "shape", plain, << >>)
ObjectRecord == Rec(object, "object", plain, <<Ref("shape", shape)>>)
ArtifactRecord == Rec(artifact, "code-artifact", plain, << >>)
UserRecord == Rec(dependent, "code-artifact", plain, <<Ref("dependency", artifact)>>)

MCCandidates ==
  {ShapeRecord, ObjectRecord, ArtifactRecord, UserRecord,
   Rec(env, "lexical-environment", plain, << >>),
   Rec(env, "lexical-environment", other, << >>)}

MCBatches ==
  {<<ShapeRecord, ObjectRecord>>, <<ArtifactRecord, UserRecord>>, <<ObjectRecord>>}

MCSweeps == {{artifact}, {dependent}}

Order == <<p, q, r>>

(* Who acts does not matter, every property is about single steps, and the *)
(* clients, the movers and the sessions are the same two.                  *)
ActorSymmetry == Permutations(Clients)

(* The image twice: all of it, and, one event longer, the records that a   *)
(* collection finds only at a pinned frontier: an artifact whose dependent *)
(* has been swept since, beside a shape that nothing refers to.            *)
PinnedBatches == {<<ArtifactRecord, UserRecord>>, <<ShapeRecord>>}

ImagePart ==
  \/ part = "image" /\ ImageNext /\ Len(history') < MaxHistory
  \/ /\ part = "pinned" /\ ImageNext
     /\ \A c \in Clients :
          /\ op'[c].phase \notin {"read-current", "root"}
          /\ op'[c].phase = "check" => op'[c].batch \in PinnedBatches

ImagesInit == part \in Parts /\ ImageInit /\ RelocationInit /\ LagrangeInit

ImagesNext ==
  /\ UNCHANGED part
  /\ \/ ImagePart /\ UNCHANGED <<relocationVars, lagrangeVars>>
     \/ part = "relocation" /\ RelocationNext /\ UNCHANGED <<imageVars, lagrangeVars>>
     \/ part = "lagrange" /\ LagrangeNext /\ UNCHANGED <<imageVars, relocationVars>>

ImagesSpec == ImagesInit /\ [][ImagesNext]_imagesVars

----------------------------------------
(* Every variable of the three parts has its type.                         *)
ImagesTypeOK == ImageTypeOK /\ RelocationTypeOK /\ LagrangeTypeOK

(* A stream as the events its rows hold, in revision order.                *)
StreamContents(s) ==
  [i \in 1..rows.heads[s] |-> (CHOOSE e \in EventsOf(s) : e.revision = i).text]

Rows == INSTANCE AtomicStore WITH
  store <- [records |-> rows.records, streams |-> [s \in Streams |-> StreamContents(s)]]

(* Read-then-conditional-write under interleaved SQL transactions still    *)
(* implements the atomic store: no committed put or append is lost, and a  *)
(* transaction that conflicts, is cut off or crashes leaves no trace       *)
(* (lagrange-backend.js putRecord, appendEvent, transaction).              *)
RowUnitsAreAtomic == Rows!Spec
========================================
