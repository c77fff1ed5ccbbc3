------------------------ MODULE OpenApiSpecs_proofs ------------------------
(***************************************************************************)
(* What holds of OpenApiSpecs for all sets of rows, paths and contents.    *)
(*                                                                         *)
(* Everything rests on the keys being unique: the document then has every  *)
(* row's operation under its key, and reconciling finds for every key the  *)
(* one row it belongs to.  The mock server's choices rest on the order of  *)
(* the paths and of the response codes.                                    *)
(***************************************************************************)
EXTENDS OpenApiSpecs, SequenceTheorems, WellFoundedInduction, TLAPS

\* The unique index on project, path and method.
KeysUnique == \A e, f \in Existing : endpoint[e].key = endpoint[f].key => e = f

IInv == TypeOK /\ KeysUnique

-----------------------------------------------------------------------------
(* Rows and documents. *)

\* What a row that is there looks like.
LEMMA RowShape ==
  ASSUME TypeOK, NEW e \in Existing
  PROVE  /\ e \in Ids /\ endpoint[e] \in Row /\ endpoint[e].key \in Keys
         /\ endpoint[e].operation \in Operation
         /\ endpoint[e].operation.is \in Contents
         /\ endpoint[e].operation.meta \in Metadata \cup {None}
         /\ endpoint[e].creator \in Users
  BY DEF TypeOK, Existing, Row, Operation

LEMMA MetaShape ==
  ASSUME NEW u \in Users, NEW createdBy \in Users \cup {"unknown"}
  PROVE  Meta(createdBy, u) \in Metadata /\ Meta(createdBy, u).createdBy = createdBy
  BY DEF Meta, Metadata

\* A row is itself with another operation.
LEMMA RowWith ==
  ASSUME NEW row \in Row, NEW op \in Operation
  PROVE  /\ [row EXCEPT !.operation = op] \in Row
         /\ [row EXCEPT !.operation = op].key = row.key
         /\ [row EXCEPT !.operation = op].operation = op
  BY DEF Row

LEMMA OperationWith ==
  ASSUME NEW op \in Operation, NEW meta \in Metadata \cup {None}
  PROVE  /\ [op EXCEPT !.meta = meta] \in Operation
         /\ [op EXCEPT !.meta = meta].is = op.is
         /\ [op EXCEPT !.meta = meta].meta = meta
  BY DEF Operation

\* Dereferencing takes the references out and leaves the rest.
LEMMA DereferencedShape ==
  ASSUME NEW op \in Operation
  PROVE  /\ Dereferenced(op) \in Operation /\ Dereferenced(op).meta = op.meta
         /\ Dereferenced(op).is = [op.is EXCEPT !.refs = FALSE]
         /\ (Dereferenced(op).is = op.is) <=> ~op.is.refs
  <1>1. op.is \in Contents /\ op = [is |-> op.is, meta |-> op.meta]
    BY DEF Operation
  <1>2. op.is = [name |-> op.is.name, refs |-> op.is.refs, responses |-> op.is.responses]
    BY <1>1, ContentsAssumption
  <1>3. op.is.refs \in BOOLEAN /\ [op.is EXCEPT !.refs = FALSE] \in Contents
    BY <1>1, ContentsAssumption
  <1>4. Dereferenced(op) = [is |-> [op.is EXCEPT !.refs = FALSE], meta |-> op.meta]
    <2>1. Dereferenced(op) = [op EXCEPT !.is = [op.is EXCEPT !.refs = FALSE]]
      BY DEF Dereferenced
    <2> QED
      BY <1>1, <2>1, Zenon
  <1>5. ([op.is EXCEPT !.refs = FALSE] = op.is) <=> ~op.is.refs
    BY <1>2, <1>3
  <1> QED
    BY <1>1, <1>3, <1>4, <1>5 DEF Operation

\* The document has the rows' operations under their keys.
LEMMA BuildHolds ==
  ASSUME IInv
  PROVE  /\ DOMAIN Build = {endpoint[e].key : e \in Existing}
         /\ DOMAIN Build \subseteq Keys
         /\ \A e \in Existing : Build[endpoint[e].key] = endpoint[e].operation
         /\ \A k \in DOMAIN Build : \E e \in Existing : endpoint[e].key = k
         /\ \A k \in DOMAIN Build : Build[k] \in Operation
  <1>1. DOMAIN Build = {endpoint[e].key : e \in Existing}
    BY DEF Build
  <1>2. ASSUME NEW e \in Existing
        PROVE  Build[endpoint[e].key] = endpoint[e].operation
    <2>1. Build[endpoint[e].key]
            = endpoint[CHOOSE x \in Existing : endpoint[x].key = endpoint[e].key].operation
      BY DEF Build
    <2>2. (CHOOSE x \in Existing : endpoint[x].key = endpoint[e].key) = e
      BY DEF IInv, KeysUnique
    <2> QED
      BY <2>1, <2>2
  <1> QED
    BY <1>1, <1>2, RowShape DEF IInv

-----------------------------------------------------------------------------
(* Taking the document back in. *)

\* Only operations that had references differ from what the document has.
LEMMA IdleWith ==
  ASSUME IInv, NEW document, DOMAIN document = DOMAIN Build,
         \A k \in DOMAIN Build : document[k] \in Operation /\ document[k].is = Build[k].is
  PROVE  LET doc == [k \in DOMAIN Build |-> Dereferenced(document[k])]
         IN  /\ ToDelete(doc) = {} /\ ToCreate(doc) = {}
             /\ ToUpdate(doc) = {e \in Existing : endpoint[e].operation.is.refs}
  <1> DEFINE doc == [k \in DOMAIN Build |-> Dereferenced(document[k])]
  <1>1. \A k \in DOMAIN Build : doc[k].is = [Build[k].is EXCEPT !.refs = FALSE]
    BY DereferencedShape
  <1>2. ToDelete(doc) = {}
    BY BuildHolds DEF ToDelete
  <1>3. ToCreate(doc) = {}
    BY BuildHolds DEF ToCreate, AtKey
  <1>4. ASSUME NEW e \in Existing
        PROVE  (Comparable(endpoint[e].operation) # Comparable(doc[endpoint[e].key]))
                 <=> endpoint[e].operation.is.refs
    <2>1. endpoint[e].key \in DOMAIN Build /\ Build[endpoint[e].key] = endpoint[e].operation
      BY BuildHolds
    <2>2. doc[endpoint[e].key].is = [endpoint[e].operation.is EXCEPT !.refs = FALSE]
      BY <1>1, <2>1
    <2> QED
      BY <2>2, RowShape, DereferencedShape DEF IInv, Comparable
  <1>5. ToUpdate(doc) = {e \in Existing : endpoint[e].operation.is.refs}
    BY <1>2, <1>4 DEF ToUpdate
  <1> QED
    BY <1>2, <1>3, <1>5

LEMMA Idle == IInv => ReimportIsIdle
  <1> SUFFICES ASSUME IInv
               PROVE  ReimportIsIdle
    OBVIOUS
  <1> DEFINE stripped == [k \in DOMAIN Build |-> [Build[k] EXCEPT !.meta = None]]
  <1>1. \A k \in DOMAIN Build : stripped[k] \in Operation /\ stripped[k].is = Build[k].is
    BY BuildHolds, OperationWith
  <1>2. \A k \in DOMAIN Build : Build[k] \in Operation
    BY BuildHolds
  <1>3. DOMAIN stripped = DOMAIN Build
    OBVIOUS
  <1> HIDE DEF stripped
  <1>4. ASSUME NEW document \in {Build, stripped}
        PROVE  LET doc == [k \in DOMAIN Build |-> Dereferenced(document[k])]
               IN  /\ ToDelete(doc) = {} /\ ToCreate(doc) = {}
                   /\ ToUpdate(doc) = {e \in Existing : endpoint[e].operation.is.refs}
    <2>1. DOMAIN document = DOMAIN Build
      BY <1>3, <1>4
    <2>2. \A k \in DOMAIN Build : document[k] \in Operation /\ document[k].is = Build[k].is
      BY <1>1, <1>2, <1>4
    <2> QED
      BY <2>1, <2>2, IdleWith
  <1> QED
    BY <1>4 DEF ReimportIsIdle, stripped

-----------------------------------------------------------------------------
(* What an import writes. *)

LEMMA StampShape ==
  ASSUME IInv, NEW doc, NEW k, NEW u \in Users
  PROVE  /\ Stamp(doc, k, u) \in Metadata
         /\ \A e \in Existing : endpoint[e].key = k /\ endpoint[e].operation.meta # None =>
                Stamp(doc, k, u).createdBy = endpoint[e].operation.meta.createdBy
  <1>1. CASE AtKey(k) = {}
    BY <1>1, MetaShape DEF Stamp, AtKey
  <1>2. CASE AtKey(k) # {}
    <2> DEFINE f == CHOOSE e \in AtKey(k) : TRUE
               meta == endpoint[f].operation.meta
    <2>1. f \in Existing /\ endpoint[f].key = k
      BY <1>2 DEF AtKey
    <2>2. meta \in Metadata \cup {None}
      BY <2>1, RowShape DEF IInv
    <2>3. Stamp(doc, k, u) = Meta(IF meta = None THEN "unknown" ELSE meta.createdBy, u)
      BY <1>2 DEF Stamp, UpdatedMeta
    <2>4. meta # None => meta.createdBy \in Users \cup {"unknown"}
      BY <2>2 DEF Metadata
    <2>5. \A e \in Existing : endpoint[e].key = k => e = f
      BY <2>1 DEF IInv, KeysUnique
    <2> HIDE DEF f
    <2>6. \A e \in Existing : endpoint[e].key = k => endpoint[e].operation.meta = meta
      BY <2>5
    <2> HIDE DEF meta
    <2> QED
      BY <2>3, <2>4, <2>6, MetaShape
  <1> QED
    BY <1>1, <1>2

\* Where the operations of the keys an import writes go.
Writes(u, doc, op, id) ==
  /\ op \in [ToCreate(doc) \cup {endpoint[e].key : e \in ToUpdate(doc)} -> Operation]
  /\ \A k \in DOMAIN op : op[k].is = doc[k].is
  /\ id \in [ToCreate(doc) -> Ids \ Existing]
  /\ \A k, l \in ToCreate(doc) : id[k] = id[l] => k = l
  /\ endpoint' = [e \in Ids |-> endpoint'[e]]
  /\ \A e \in ToDelete(doc) : endpoint'[e] = None
  /\ \A e \in ToUpdate(doc) : endpoint'[e] = [endpoint[e] EXCEPT !.operation = op[endpoint[e].key]]
  /\ \A k \in ToCreate(doc) : endpoint'[id[k]] = [key |-> k, operation |-> op[k], creator |-> u]
  /\ \A e \in Ids : \/ e \in ToDelete(doc) \cup ToUpdate(doc)
                    \/ \E k \in ToCreate(doc) : id[k] = e
                    \/ endpoint'[e] = endpoint[e]

\* The operation of a key is the document's with the key's own stamp, or,
\* where keys share it, that of the one stamped last.
StampedFor(doc, op, shared, u) ==
  /\ \A k \in DOMAIN op \ shared : op[k] = [doc[k] EXCEPT !.meta = Stamp(doc, k, u)]
  /\ \A k \in DOMAIN op \cap shared :
       \E last \in DOMAIN op \cap shared :
         /\ op[k] = [doc[k] EXCEPT !.meta = Stamp(doc, last, u)]
         /\ op[last] = [doc[last] EXCEPT !.meta = Stamp(doc, last, u)]

LEMMA ImportWrites ==
  ASSUME IInv, NEW u \in Users, NEW document, NEW shared, Import(u, document, shared),
         DOMAIN document \subseteq Keys, \A k \in DOMAIN document : document[k] \in Operation
  PROVE  LET doc == [k \in DOMAIN document |-> Dereferenced(document[k])]
         IN  \E op, id : Writes(u, doc, op, id) /\ StampedFor(doc, op, shared, u)
  <1> DEFINE doc == [k \in DOMAIN document |-> Dereferenced(document[k])]
             written == ToCreate(doc) \cup {endpoint[e].key : e \in ToUpdate(doc)}
  <1>1. PICK id \in [ToCreate(doc) -> Ids \ Existing],
             last \in IF shared \cap written = {} THEN {None} ELSE shared \cap written :
          /\ \A k, l \in ToCreate(doc) : id[k] = id[l] => k = l
          /\ endpoint' = [e \in Ids |->
               CASE e \in ToDelete(doc) -> None
                 [] e \in ToUpdate(doc) ->
                      [endpoint[e] EXCEPT !.operation =
                         [doc[endpoint[e].key] EXCEPT !.meta =
                            Stamp(doc, IF endpoint[e].key \in shared THEN last ELSE endpoint[e].key, u)]]
                 [] \E k \in ToCreate(doc) : id[k] = e ->
                      LET k == CHOOSE k \in ToCreate(doc) : id[k] = e
                      IN  [key |-> k,
                           operation |-> [doc[k] EXCEPT !.meta =
                              Stamp(doc, IF k \in shared THEN last ELSE k, u)],
                           creator |-> u]
                 [] OTHER -> endpoint[e]]
    BY DEF Import
  <1> DEFINE op == [k \in written |->
                      [doc[k] EXCEPT !.meta = Stamp(doc, IF k \in shared THEN last ELSE k, u)]]
  <1>2. \A k \in DOMAIN document : doc[k] \in Operation
    BY DereferencedShape
  <1> HIDE DEF doc
  <1>3. DOMAIN doc = DOMAIN document
    BY DEF doc
  <1>4. \A e \in ToUpdate(doc) : e \in Existing /\ endpoint[e].key \in DOMAIN doc
    BY DEF ToUpdate, ToDelete
  <1>5. written \subseteq DOMAIN doc
    BY <1>4 DEF ToCreate
  <1>6. \A k : Stamp(doc, k, u) \in Metadata
    BY StampShape
  <1>7. \A k \in written : op[k] \in Operation /\ op[k].is = doc[k].is
    BY <1>2, <1>3, <1>5, <1>6, OperationWith
  <1>8. \A e \in ToUpdate(doc) \cup ToDelete(doc) : e \in Existing
    BY DEF ToUpdate, ToDelete
  <1>9. \A e \in ToUpdate(doc) : e \notin ToDelete(doc)
    BY DEF ToUpdate
  <1>10. Existing \subseteq Ids
    BY DEF Existing
  <1>11. ASSUME NEW e \in ToUpdate(doc)
         PROVE  endpoint'[e] = [endpoint[e] EXCEPT !.operation = op[endpoint[e].key]]
    BY <1>1, <1>8, <1>9, <1>10
  <1>12. ASSUME NEW k \in ToCreate(doc)
         PROVE  endpoint'[id[k]] = [key |-> k, operation |-> op[k], creator |-> u]
    <2>1. id[k] \in Ids /\ id[k] \notin ToDelete(doc) /\ id[k] \notin ToUpdate(doc)
      BY <1>1, <1>8
    <2>2. (CHOOSE l \in ToCreate(doc) : id[l] = id[k]) = k
      BY <1>1
    <2> QED
      BY <1>1, <2>1, <2>2
  <1>13. Writes(u, doc, op, id)
    <2>1. /\ op \in [written -> Operation] /\ \A k \in DOMAIN op : op[k].is = doc[k].is
      BY <1>7
    <2>2. endpoint' = [e \in Ids |-> endpoint'[e]]
      BY <1>1
    <2>4. ASSUME NEW e \in ToDelete(doc)
          PROVE  endpoint'[e] = None
      <3>1. e \in Ids /\ e \notin ToUpdate(doc)
        BY <1>8, <1>9, <1>10
      <3>2. \A k \in ToCreate(doc) : id[k] # e
        BY <1>1, <1>8
      <3> QED
        BY <1>1, <3>1, <3>2
    <2>3. ASSUME NEW e \in Ids, e \notin ToDelete(doc) \cup ToUpdate(doc),
                 ~ \E k \in ToCreate(doc) : id[k] = e
          PROVE  endpoint'[e] = endpoint[e]
      BY <1>1, <2>3
    <2>5. /\ id \in [ToCreate(doc) -> Ids \ Existing]
          /\ \A k, l \in ToCreate(doc) : id[k] = id[l] => k = l
      BY <1>1
    <2>6. \A e \in Ids : \/ e \in ToDelete(doc) \cup ToUpdate(doc)
                         \/ \E k \in ToCreate(doc) : id[k] = e
                         \/ endpoint'[e] = endpoint[e]
      BY <2>3
    <2> HIDE DEF op
    <2> QED
      BY <1>11, <1>12, <2>1, <2>2, <2>4, <2>5, <2>6 DEF Writes
  <1>14. StampedFor(doc, op, shared, u)
    <2>1. \A k \in written \cap shared :
            /\ last \in written \cap shared
            /\ op[k] = [doc[k] EXCEPT !.meta = Stamp(doc, last, u)]
      BY <1>1
    <2> QED
      BY <2>1 DEF StampedFor
  <1> QED
    BY <1>13, <1>14 DEF doc

\* What becomes of each row: nothing, deletion, another operation, or a new
\* one under a key that no row has.
LEMMA WritesRows ==
  ASSUME IInv, NEW u \in Users, NEW doc, NEW op, NEW id, Writes(u, doc, op, id),
         DOMAIN doc \subseteq Keys, NEW e \in Ids, endpoint'[e] # None
  PROVE  /\ endpoint'[e] \in Row
         /\ \/ /\ e \in Existing /\ endpoint'[e].key = endpoint[e].key
               /\ \/ endpoint'[e] = endpoint[e]
                  \/ e \in ToUpdate(doc) /\ endpoint'[e].operation = op[endpoint[e].key]
            \/ \E k \in ToCreate(doc) :
                 e = id[k] /\ endpoint'[e].key = k /\ endpoint'[e].operation = op[k]
  <1>1. \A x \in ToUpdate(doc) \cup ToDelete(doc) : x \in Existing
    BY DEF ToUpdate, ToDelete
  <1>2. CASE e \in ToUpdate(doc)
    <2>1. op[endpoint[e].key] \in Operation
      BY <1>2 DEF Writes
    <2>2. endpoint'[e] = [endpoint[e] EXCEPT !.operation = op[endpoint[e].key]]
      BY <1>2 DEF Writes
    <2> QED
      BY <1>1, <1>2, <2>1, <2>2, RowShape, RowWith DEF IInv
  <1>3. ASSUME NEW k \in ToCreate(doc), id[k] = e
        PROVE  endpoint'[e] \in Row /\ endpoint'[e].key = k /\ endpoint'[e].operation = op[k]
    <2>1. op[k] \in Operation /\ k \in Keys
      BY DEF Writes, ToCreate
    <2>2. endpoint'[e] = [key |-> k, operation |-> op[k], creator |-> u]
      BY <1>3 DEF Writes
    <2> QED
      BY <2>1, <2>2 DEF Row
  <1>4. CASE endpoint'[e] = endpoint[e]
    BY <1>4, RowShape DEF IInv, Existing
  <1>5. e \notin ToDelete(doc)
    BY DEF Writes
  <1> QED
    BY <1>2, <1>3, <1>4, <1>5 DEF Writes

LEMMA WritesKeepInvariant ==
  ASSUME IInv, NEW u \in Users, NEW doc, NEW op, NEW id, Writes(u, doc, op, id),
         DOMAIN doc \subseteq Keys
  PROVE  IInv'
  <1>1. TypeOK'
    <2>1. \A e \in Ids : endpoint'[e] \in Row \cup {None}
      BY WritesRows
    <2>2. endpoint' = [e \in Ids |-> endpoint'[e]]
      BY DEF Writes
    <2> QED
      BY <2>1, <2>2 DEF TypeOK
  <1>2. ASSUME NEW e \in Ids, NEW f \in Ids, endpoint'[e] # None, endpoint'[f] # None,
               endpoint'[e].key = endpoint'[f].key
        PROVE  e = f
    <2>1. \A k \in ToCreate(doc) : \A x \in Existing : endpoint[x].key # k
      BY DEF ToCreate, AtKey
    <2>2. \A k, l \in ToCreate(doc) : id[k] = id[l] => k = l
      BY DEF Writes
    <2> QED
      BY <1>2, <2>1, <2>2, WritesRows DEF IInv, KeysUnique
  <1> QED
    BY <1>1, <1>2 DEF IInv, KeysUnique, Existing

\* What CreatorKept says of one row.
KeepsCreator(e) ==
  endpoint[e] # None /\ endpoint'[e] # None /\ endpoint[e].operation.meta # None =>
    \/ endpoint'[e].operation.meta.createdBy = endpoint[e].operation.meta.createdBy
    \/ \E f \in Ids \ {e} : /\ endpoint'[f] # endpoint[f] /\ endpoint'[f] # None
                            /\ endpoint'[f].operation = endpoint'[e].operation

\* The row of any key that was written has changed.
LEMMA WrittenRow ==
  ASSUME IInv, NEW u \in Users, NEW doc, NEW op, NEW id, Writes(u, doc, op, id),
         DOMAIN doc \subseteq Keys, NEW k \in DOMAIN op
  PROVE  \E f \in Ids : /\ endpoint'[f] # endpoint[f] /\ endpoint'[f] # None
                        /\ endpoint'[f].operation = op[k]
                        /\ f \in Existing => endpoint[f].key = k
  <1>1. op[k] \in Operation /\ op[k].is = doc[k].is
    BY DEF Writes
  <1>2. CASE k \in ToCreate(doc)
    <2>1. id[k] \in Ids \ Existing /\ endpoint'[id[k]] = [key |-> k, operation |-> op[k], creator |-> u]
      BY <1>2 DEF Writes
    <2>2. endpoint'[id[k]] \in Row
      BY <1>1, <1>2, <2>1 DEF ToCreate, Row
    <2> QED
      BY <2>1, <2>2, NoneAssumption DEF Existing
  <1>3. ASSUME NEW f \in ToUpdate(doc), endpoint[f].key = k
        PROVE  /\ f \in Ids /\ endpoint'[f] # endpoint[f] /\ endpoint'[f] # None
               /\ endpoint'[f].operation = op[k]
    <2>1. f \in Existing /\ endpoint[f].operation.is # doc[k].is
      BY <1>3 DEF ToUpdate, Comparable
    <2>2. endpoint'[f] = [endpoint[f] EXCEPT !.operation = op[k]]
      BY <1>3 DEF Writes
    <2>3. endpoint'[f] \in Row /\ endpoint'[f].operation = op[k]
      BY <1>1, <2>1, <2>2, RowShape, RowWith DEF IInv
    <2> QED
      BY <1>1, <2>1, <2>3, RowShape, NoneAssumption DEF IInv
  <1> QED
    BY <1>2, <1>3 DEF Writes

LEMMA WritesKeepCreators ==
  ASSUME IInv, NEW u \in Users, NEW doc, NEW op, NEW id, NEW shared,
         Writes(u, doc, op, id), StampedFor(doc, op, shared, u),
         DOMAIN doc \subseteq Keys, \A k \in DOMAIN doc : doc[k] \in Operation,
         \A k, l \in shared : doc[k] = doc[l],
         NEW e \in Ids
  PROVE  KeepsCreator(e)
  <1> SUFFICES ASSUME endpoint[e] # None, endpoint'[e] # None, endpoint[e].operation.meta # None,
                      endpoint'[e] # endpoint[e]
               PROVE  \/ endpoint'[e].operation.meta.createdBy = endpoint[e].operation.meta.createdBy
                      \/ \E f \in Ids \ {e} : /\ endpoint'[f] # endpoint[f] /\ endpoint'[f] # None
                                              /\ endpoint'[f].operation = endpoint'[e].operation
    BY DEF KeepsCreator
  <1> DEFINE k == endpoint[e].key
  <1>1. e \in Existing
    BY DEF Existing
  <1>2. e \in ToUpdate(doc) /\ endpoint'[e].operation = op[k]
    <2>1. \A x \in ToCreate(doc) : id[x] \notin Existing
      BY DEF Writes
    <2> QED
      BY <1>1, <2>1, WritesRows
  <1>3. k \in DOMAIN op /\ \A x \in DOMAIN op : x \in DOMAIN doc
    BY <1>2 DEF Writes, ToUpdate, ToDelete, ToCreate
  <1> HIDE DEF k
  <1>4. ASSUME op[k] = [doc[k] EXCEPT !.meta = Stamp(doc, k, u)]
        PROVE  endpoint'[e].operation.meta.createdBy = endpoint[e].operation.meta.createdBy
    <2>1. op[k].meta = Stamp(doc, k, u)
      BY <1>3, <1>4, StampShape, OperationWith
    <2> QED
      BY <1>1, <1>2, <2>1, StampShape DEF k
  <1>5. ASSUME k \in shared
        PROVE  \/ op[k] = [doc[k] EXCEPT !.meta = Stamp(doc, k, u)]
               \/ \E f \in Ids \ {e} : /\ endpoint'[f] # endpoint[f] /\ endpoint'[f] # None
                                       /\ endpoint'[f].operation = op[k]
    <2>1. PICK last \in DOMAIN op \cap shared :
                 /\ op[k] = [doc[k] EXCEPT !.meta = Stamp(doc, last, u)]
                 /\ op[last] = [doc[last] EXCEPT !.meta = Stamp(doc, last, u)]
      BY <1>3, <1>5 DEF StampedFor
    <2>2. op[last] = op[k]
      BY <1>5, <2>1
    <2>3. PICK f \in Ids : /\ endpoint'[f] # endpoint[f] /\ endpoint'[f] # None
                           /\ endpoint'[f].operation = op[last]
                           /\ f \in Existing => endpoint[f].key = last
      BY <2>1, WrittenRow
    <2>4. last # k => f # e
      BY <1>1, <2>3 DEF k
    <2> QED
      BY <2>1, <2>2, <2>3, <2>4
  <1>6. k \notin shared => op[k] = [doc[k] EXCEPT !.meta = Stamp(doc, k, u)]
    BY <1>3 DEF StampedFor
  <1> QED
    BY <1>2, <1>4, <1>5, <1>6

\* An import keeps the keys unique and tells who made what it keeps.
LEMMA ImportStep ==
  ASSUME IInv, NEW u \in Users, NEW document, NEW shared, Import(u, document, shared),
         DOMAIN document \subseteq Keys, \A k \in DOMAIN document : document[k] \in Operation,
         shared \subseteq DOMAIN document, \A k, l \in shared : document[k] = document[l]
  PROVE  IInv' /\ \A e \in Ids : KeepsCreator(e)
  <1> DEFINE doc == [k \in DOMAIN document |-> Dereferenced(document[k])]
  <1>1. PICK op, id : Writes(u, doc, op, id) /\ StampedFor(doc, op, shared, u)
    BY ImportWrites
  <1>2. DOMAIN doc \subseteq Keys /\ \A k \in DOMAIN doc : doc[k] \in Operation
    BY DereferencedShape
  <1>3. \A k, l \in shared : doc[k] = doc[l]
    OBVIOUS
  <1> HIDE DEF doc
  <1> QED
    BY <1>1, <1>2, <1>3, WritesKeepInvariant, WritesKeepCreators

LEMMA ImportsStep ==
  ASSUME IInv, NEW u \in Users, Imports(u)
  PROVE  IInv' /\ \A e \in Ids : KeepsCreator(e)
  <1>1. /\ DOMAIN Build \subseteq Keys
        /\ \A k \in DOMAIN Build : Build[k] \in Operation
    BY BuildHolds
  <1>2. ASSUME NEW l \in Keys, Import(u, Without(l), {})
        PROVE  IInv' /\ \A e \in Ids : KeepsCreator(e)
    <2>1. DOMAIN Without(l) \subseteq Keys /\ \A k \in DOMAIN Without(l) : Without(l)[k] \in Operation
      BY <1>1 DEF Without
    <2> QED
      BY <1>2, <2>1, ImportStep
  <1>3. ASSUME NEW l \in Keys, NEW op \in Operation
        PROVE  /\ DOMAIN With(l, op) = DOMAIN Build \cup {l} /\ DOMAIN With(l, op) \subseteq Keys
               /\ \A k \in DOMAIN With(l, op) : With(l, op)[k] \in Operation
               /\ With(l, op)[l] = op
    BY <1>1 DEF With
  <1>4. ASSUME NEW l \in Keys, NEW c \in Contents, NEW m \in {None} \cup {Meta(v, v) : v \in Users},
               Import(u, With(l, [is |-> c, meta |-> m]), {})
        PROVE  IInv' /\ \A e \in Ids : KeepsCreator(e)
    <2> DEFINE op == [is |-> c, meta |-> m]
    <2>1. op \in Operation
      BY MetaShape DEF Operation
    <2>2. Import(u, With(l, op), {})
      BY <1>4
    <2> HIDE DEF op
    <2>3. DOMAIN With(l, op) \subseteq Keys /\ \A k \in DOMAIN With(l, op) : With(l, op)[k] \in Operation
      BY <1>3, <2>1
    <2> QED
      BY <2>2, <2>3, ImportStep
  <1>5. ASSUME NEW l \in Keys, NEW k \in DOMAIN Build, NEW c \in Contents,
               LET op == [is |-> c, meta |-> Build[k].meta]
               IN  Import(u, [With(l, op) EXCEPT ![k] = op], {k, l})
        PROVE  IInv' /\ \A e \in Ids : KeepsCreator(e)
    <2> DEFINE op == [is |-> c, meta |-> Build[k].meta]
               document == [With(l, op) EXCEPT ![k] = op]
    <2>1. op \in Operation
      BY <1>1 DEF Operation
    <2> HIDE DEF op
    <2>2. DOMAIN document = DOMAIN Build \cup {l} /\ DOMAIN document \subseteq Keys
      BY <1>3, <2>1
    <2>3. /\ \A x \in DOMAIN document : document[x] \in Operation
          /\ document[k] = op /\ document[l] = op
      BY <1>3, <2>1
    <2>4. Import(u, document, {k, l})
      BY <1>5 DEF op
    <2> HIDE DEF document
    <2> QED
      BY <2>2, <2>3, <2>4, ImportStep
  <1> QED
    BY <1>2, <1>4, <1>5 DEF Imports

-----------------------------------------------------------------------------
(* The endpoint's routes. *)

\* Writing one row keeps the invariant if no other row has its key.
LEMMA OneRow ==
  ASSUME IInv, NEW e \in Ids, NEW row \in Row, \A f \in Existing \ {e} : endpoint[f].key # row.key,
         endpoint' = [endpoint EXCEPT ![e] = row]
  PROVE  IInv' /\ endpoint'[e] = row /\ \A f \in Ids \ {e} : endpoint'[f] = endpoint[f]
  <1>1. endpoint'[e] = row /\ \A f \in Ids \ {e} : endpoint'[f] = endpoint[f]
    BY DEF IInv, TypeOK
  <1>2. TypeOK'
    BY DEF IInv, TypeOK
  <1>3. \A f \in Existing' : f = e \/ (f \in Existing /\ endpoint'[f] = endpoint[f])
    BY <1>1 DEF Existing
  <1> QED
    BY <1>1, <1>2, <1>3 DEF IInv, KeysUnique

LEMMA CreateStep ==
  ASSUME IInv, NEW u \in Users, NEW e \in Ids, NEW k \in Keys, NEW c \in Contents, Create(u, e, k, c)
  PROVE  IInv' /\ \A x \in Ids : KeepsCreator(x)
  <1> DEFINE row == [key |-> k, operation |-> [is |-> c, meta |-> Meta(u, u)], creator |-> u]
  <1>1. row \in Row /\ row.key = k
    BY MetaShape DEF Row, Operation
  <1>2. /\ endpoint[e] = None /\ endpoint' = [endpoint EXCEPT ![e] = row]
        /\ \A f \in Existing : endpoint[f].key # k
    BY DEF Create, AtKey
  <1> HIDE DEF row
  <1>3. IInv' /\ \A f \in Ids \ {e} : endpoint'[f] = endpoint[f]
    BY <1>1, <1>2, OneRow
  <1> QED
    BY <1>2, <1>3 DEF KeepsCreator

LEMMA UpdateStep ==
  ASSUME IInv, NEW u \in Users, NEW e \in Ids, NEW k \in Keys, NEW c \in Contents, Update(u, e, k, c)
  PROVE  IInv' /\ \A x \in Ids : KeepsCreator(x)
  <1> DEFINE meta == Meta(CreatedBy(e, u), u)
             op == [is |-> c, meta |-> meta]
             row == [[endpoint[e] EXCEPT !.key = k] EXCEPT !.operation = op]
  <1>1. e \in Existing /\ \A f \in Existing \ {e} : endpoint[f].key # k
    BY DEF Update, AtKey, Existing
  <1>2. /\ endpoint[e] \in Row /\ endpoint[e].creator \in Users
        /\ endpoint[e].operation.meta \in Metadata \cup {None}
    BY <1>1, RowShape DEF IInv
  <1>3. /\ CreatedBy(e, u) \in Users \cup {"unknown"}
        /\ endpoint[e].operation.meta # None => CreatedBy(e, u) = endpoint[e].operation.meta.createdBy
    BY <1>2 DEF CreatedBy, Metadata
  <1>4. meta \in Metadata /\ meta.createdBy = CreatedBy(e, u)
    BY <1>3, MetaShape
  <1>5. endpoint' = [endpoint EXCEPT ![e] = row]
    BY <1>1, <1>2 DEF Update, IInv, TypeOK, Existing
  <1> HIDE DEF meta
  <1>6. op \in Operation /\ op.meta = meta
    BY <1>4 DEF Operation
  <1> HIDE DEF op
  <1>7. row \in Row /\ row.key = k /\ row.operation = op
    BY <1>2, <1>6 DEF Row
  <1> HIDE DEF row
  <1>8. IInv' /\ endpoint'[e] = row /\ \A f \in Ids \ {e} : endpoint'[f] = endpoint[f]
    BY <1>1, <1>5, <1>7, OneRow
  <1> QED
    BY <1>3, <1>4, <1>6, <1>7, <1>8 DEF KeepsCreator

LEMMA DeleteStep ==
  ASSUME IInv, NEW e \in Ids, Delete(e)
  PROVE  IInv' /\ \A x \in Ids : KeepsCreator(x)
  <1>1. /\ endpoint'[e] = None /\ \A f \in Ids \ {e} : endpoint'[f] = endpoint[f]
        /\ TypeOK'
    BY DEF Delete, IInv, TypeOK
  <1>2. \A f \in Existing' : f \in Existing /\ endpoint'[f] = endpoint[f]
    BY <1>1 DEF Existing
  <1> QED
    BY <1>1, <1>2 DEF IInv, KeysUnique, KeepsCreator

LEMMA InvariantInit == Init => IInv
  <1> SUFFICES ASSUME Init
               PROVE  IInv
    OBVIOUS
  <1>1. PICK e \in Ids, k \in Keys, c \in Contents, u \in Users :
          endpoint = [x \in Ids |-> IF x = e THEN [key |-> k, creator |-> u,
                                                   operation |-> [is |-> c, meta |-> None]]
                                             ELSE None]
    BY DEF Init
  <1>2. [key |-> k, creator |-> u, operation |-> [is |-> c, meta |-> None]] \in Row
    BY DEF Row, Operation
  <1>3. TypeOK
    BY <1>1, <1>2 DEF TypeOK
  <1>4. Existing \subseteq {e}
    BY <1>1 DEF Existing
  <1> QED
    BY <1>3, <1>4 DEF IInv, KeysUnique

LEMMA InvariantStep ==
  ASSUME IInv, [Next]_vars
  PROVE  IInv' /\ \A e \in Ids : KeepsCreator(e)
  <1>1. CASE UNCHANGED vars
    BY <1>1 DEF vars, IInv, TypeOK, KeysUnique, Existing, KeepsCreator
  <1>2. CASE Next
    BY <1>2, CreateStep, UpdateStep, DeleteStep, ImportsStep DEF Next
  <1> QED
    BY <1>1, <1>2

-----------------------------------------------------------------------------
(* The mock server. *)

\* A set of positions has a first one.
LEMMA MinIsFirst ==
  ASSUME NEW S, S \subseteq Nat, S # {}
  PROVE  Min(S) \in S /\ \A i \in S : Min(S) <= i
  <1>1. PICK x \in S : \A y \in S : ~(<<y, x>> \in OpToRel(<, Nat))
    BY WFMin, NatLessThanWellFounded
  <1>2. OpToRel(<, Nat) = {ss \in Nat \X Nat : ss[1] < ss[2]}
    BY DEF OpToRel
  <1> HIDE DEF OpToRel
  <1>3. ASSUME NEW y \in S
        PROVE  x <= y
    <2>1. <<y, x>> \notin {ss \in Nat \X Nat : ss[1] < ss[2]}
      BY <1>1, <1>2, Zenon
    <2> QED
      BY <2>1
  <1> QED
    BY <1>3 DEF Min

LEMMA FirstIsDeclared ==
  ASSUME NEW codes, codes \subseteq Codes, codes # {}
  PROVE  First(codes) \in codes
  <1> DEFINE at == {i \in DOMAIN CodeOrder : CodeOrder[i] \in codes}
  <1>1. DOMAIN CodeOrder = 1..7
    BY DEF CodeOrder
  <1>2. \A code \in Codes : \E i \in 1..7 : CodeOrder[i] = code
    BY DEF CodeOrder, Codes
  <1>3. at \subseteq Nat /\ at # {}
    BY <1>1, <1>2
  <1> QED
    BY <1>3, MinIsFirst DEF First

\* What answers is the operation of a path that matches and has the method,
\* and no path before it does.
LEMMA FirstMatch ==
  ASSUME NEW method, NEW request, FindMatchingOperation(method, request) # None
  PROVE  \E i \in DOMAIN Sorted :
           /\ Matches(Sorted[i], request) /\ <<Sorted[i], method>> \in DOMAIN Build
           /\ \A h \in DOMAIN Sorted : h < i => ~(Matches(Sorted[h], request) /\ <<Sorted[h], method>> \in DOMAIN Build)
           /\ FindMatchingOperation(method, request) = Build[<<Sorted[i], method>>].is
  <1> DEFINE fit == {i \in DOMAIN Sorted :
                         Matches(Sorted[i], request) /\ <<Sorted[i], method>> \in DOMAIN Build}
  <1>1. fit # {} /\ FindMatchingOperation(method, request) = Build[<<Sorted[Min(fit)], method>>].is
    BY DEF FindMatchingOperation
  <1>2. fit \subseteq Nat
    BY OrderAssumption DEF Sorted
  <1>3. Min(fit) \in fit /\ \A h \in fit : Min(fit) <= h
    BY <1>1, <1>2, MinIsFirst
  <1>4. ASSUME NEW h \in fit
        PROVE  ~(h < Min(fit))
    <2> HIDE DEF fit
    <2>1. h \in Nat /\ Min(fit) \in Nat /\ Min(fit) <= h
      BY <1>2, <1>3
    <2> QED
      BY <2>1
  <1>5. Min(fit) \in DOMAIN Sorted /\ Matches(Sorted[Min(fit)], request)
          /\ <<Sorted[Min(fit)], method>> \in DOMAIN Build
    BY <1>3
  <1>6. \A h \in DOMAIN Sorted :
          h < Min(fit) => ~(Matches(Sorted[h], request) /\ <<Sorted[h], method>> \in DOMAIN Build)
    BY <1>4
  <1> HIDE DEF fit
  <1> QED
    BY <1>1, <1>5, <1>6

\* A path that is another and a trailing slash.
LEMMA Continued ==
  ASSUME NEW S, NEW e, NEW p \in Seq(S), NEW q \in Seq(S),
         Len(p) < Len(q), \A h \in DOMAIN p : p[h] = q[h],
         Len(q) = Len(p) \/ (Len(q) = Len(p) + 1 /\ q[Len(q)] = e)
  PROVE  q = Append(p, e)
  <1>1. Len(q) = Len(p) + 1 /\ q[Len(q)] = e
    OBVIOUS
  <1>2. Append(p, e) \in Seq(S) /\ Len(Append(p, e)) = Len(q)
    <2>1. Len(q) \in DOMAIN q
      BY <1>1
    <2> QED
      BY <1>1, <2>1
  <1>3. \A h \in 1..Len(q) : q[h] = Append(p, e)[h]
    BY <1>1
  <1> QED
    BY <1>2, <1>3, SeqEqual

\* What matches a literal path and comes before it is spelt in another way.
LEMMA LiteralFirst ==
  ASSUME NEW j \in DOMAIN Paths, \A d \in DOMAIN Paths[j] : Paths[j][d] \notin Params,
         NEW i \in DOMAIN Paths, Matches(Paths[i], Paths[j]), i < j
  PROVE  SpeltOtherwise(Paths[i], Paths[j])
  <1> DEFINE p == Paths[i]
             request == Paths[j]
  <1>1. p \in Seq(STRING) /\ request \in Seq(STRING)
    BY OrderAssumption
  <1>2. CASE Len(p) < Len(request) /\ \A h \in DOMAIN p : p[h] = request[h]
    <2>1. Len(request) = Len(p) \/ (Len(request) = Len(p) + 1 /\ request[Len(request)] = "")
      BY DEF Matches, Last
    <2> HIDE DEF p, request
    <2>2. request = Append(p, "")
      BY <1>1, <1>2, <2>1, Continued
    <2> QED
      BY <2>2 DEF SpeltOtherwise, p, request
  <1>3. ASSUME NEW d \in DOMAIN p \cap DOMAIN request, p[d] # request[d],
               \A h \in DOMAIN p : h < d => p[h] = request[h],
               p[d] \in Params => request[d] \in Params
        PROVE  SpeltOtherwise(p, request)
    <2>1. Lower(p[d]) = Lower(request[d])
      BY <1>3 DEF Matches
    <2> HIDE DEF p, request
    <2> QED
      BY <1>3, <2>1 DEF SpeltOtherwise
  <1> QED
    BY <1>2, <1>3, OrderAssumption

LEMMA LiteralAnswers == IInv => LiteralWins
  <1> SUFFICES ASSUME IInv, NEW e \in Existing, NEW request \in Requests, endpoint[e].key[1] = request
               PROVE  \E f \in Existing :
                        /\ f = e \/ SpeltOtherwise(endpoint[f].key[1], request)
                        /\ endpoint[f].key[2] = endpoint[e].key[2]
                        /\ FindMatchingOperation(endpoint[e].key[2], request) = endpoint[f].operation.is
    BY DEF LiteralWins
  <1> DEFINE method == endpoint[e].key[2]
             fit == {i \in DOMAIN Sorted :
                         Matches(Sorted[i], request) /\ <<Sorted[i], method>> \in DOMAIN Build}
             m == Min(fit)
  <1>1. endpoint[e].key = <<request, method>> /\ request \in PathSet
    BY RowShape DEF IInv, Keys
  <1>2. <<request, method>> \in DOMAIN Build
    BY <1>1, BuildHolds
  <1>3. \A d \in DOMAIN request : request[d] \notin Params
    <2>1. PICK p \in PathSet, s \in (UNION {Range(q) : q \in PathSet}) \ Params :
            request = [i \in DOMAIN p |-> IF p[i] \in Params THEN s ELSE p[i]]
      BY DEF Requests
    <2>2. s \notin Params
      OBVIOUS
    <2>3. \A d \in DOMAIN request : request[d] \in {s, p[d]} /\ (p[d] \in Params => request[d] = s)
      BY <2>1
    <2> QED
      BY <2>2, <2>3
  <1>4. PICK j \in DOMAIN Paths : Paths[j] = request
    BY <1>1 DEF PathSet, ToSet
  <1>5. j \in fit /\ fit \subseteq Nat
    <2>1. Matches(request, request)
      BY <1>3 DEF Matches
    <2> QED
      BY <1>2, <1>4, <2>1, OrderAssumption DEF Sorted
  <1>6. m \in fit /\ m <= j
    BY <1>5, MinIsFirst
  <1>7. /\ m \in DOMAIN Paths /\ Matches(Paths[m], request)
        /\ <<Paths[m], method>> \in DOMAIN Build /\ m \in Nat /\ j \in Nat
    BY <1>5, <1>6 DEF Sorted
  <1>8. FindMatchingOperation(method, request) = Build[<<Paths[m], method>>].is
    BY <1>5 DEF FindMatchingOperation, Sorted
  <1> HIDE DEF m, fit
  <1>9. PICK f \in Existing : endpoint[f].key = <<Paths[m], method>>
    BY <1>7, BuildHolds
  <1>10. FindMatchingOperation(method, request) = endpoint[f].operation.is
    BY <1>8, <1>9, BuildHolds
  <1>11. CASE m = j
    <2>1. f = e
      BY <1>1, <1>4, <1>9, <1>11 DEF IInv, KeysUnique
    <2> QED
      BY <1>10, <2>1
  <1>12. CASE m # j
    <2>1. SpeltOtherwise(Paths[m], request)
      BY <1>3, <1>4, <1>6, <1>7, <1>12, LiteralFirst
    <2> QED
      BY <1>9, <1>10, <2>1
  <1> QED
    BY <1>11, <1>12

\* The declared codes a request may be answered with, and those of success.
Fitting(responses, requested) ==
  {code \in DOMAIN responses : CASE requested # None -> code = requested
                                 [] requested = None -> code \in {"200", "201", "204", "2XX", "default"}}
WithBody(codes) == {code \in codes : code \in {"200", "201", "2XX"}}

LEMMA Selected ==
  ASSUME NEW responses, DOMAIN responses \subseteq Codes, NEW requested \in Codes \cup {None}
  PROVE  LET of == Fitting(responses, requested)
             code == SelectResponse(responses, requested)
         IN  /\ code \in DOMAIN responses <=> of # {}
             /\ of # {} => code \in IF WithBody(of) = {} THEN of ELSE WithBody(of)
             /\ code = "default" => requested = "default" \/ "204" \notin DOMAIN responses
  <1> DEFINE declared == DOMAIN responses
             success == {code \in declared : SuccessWithBody(code)}
             of == Fitting(responses, requested)
             code == SelectResponse(responses, requested)
  <1>1. CASE requested # None
    <2>1. code = requested
      BY <1>1 DEF SelectResponse
    <2>2. of = declared \cap {requested}
      BY <1>1 DEF Fitting
    <2> QED
      BY <2>1, <2>2 DEF WithBody
  <1>2. CASE requested = None
    <2>1. of = {c \in declared : c \in {"200", "201", "204", "2XX", "default"}}
      BY <1>2 DEF Fitting
    <2>2. success = WithBody(of)
      BY <2>1 DEF WithBody, SuccessWithBody
    <2>3. CASE success # {}
      <3>1. code = First(success)
        BY <1>2, <2>3 DEF SelectResponse
      <3>2. First(success) \in success
        BY <2>3, FirstIsDeclared
      <3>3. code # "default"
        BY <3>1, <3>2 DEF SuccessWithBody
      <3> QED
        BY <2>1, <2>2, <2>3, <3>1, <3>2, <3>3 DEF WithBody
    <2>4. CASE success = {} /\ declared \cap {"204", "default"} # {}
      <3>1. code = IF "204" \in declared THEN "204" ELSE "default"
        BY <1>2, <2>4 DEF SelectResponse
      <3> QED
        BY <2>1, <2>2, <2>4, <3>1
    <2>5. CASE success = {} /\ declared \cap {"204", "default"} = {}
      <3>1. code = "200"
        BY <1>2, <2>5 DEF SelectResponse
      <3>2. of = {}
        BY <2>1, <2>5 DEF SuccessWithBody
      <3>3. "200" \notin declared
        BY <2>5 DEF SuccessWithBody
      <3> QED
        BY <3>1, <3>2, <3>3
    <2> QED
      BY <2>3, <2>4, <2>5
  <1> QED
    BY <1>1, <1>2

LEMMA Answers == IInv => AnswersDeclared
  <1> SUFFICES ASSUME IInv, NEW method \in Methods, NEW request \in Requests,
                      NEW requested \in Codes \cup {None},
                      FindMatchingOperation(method, request) # None
               PROVE  LET op == FindMatchingOperation(method, request)
                          of == Fitting(op.responses, requested)
                          ok == WithBody(of)
                          answer == Answer(method, request, requested)
                      IN  /\ (of = {}) <=> (answer.error = "MockResponseNotFound")
                          /\ answer.error = "MockGenerationConflict" => \E code \in ok : ~op.responses[code]
                          /\ answer.error = None =>
                               \E code \in IF ok = {} THEN of ELSE ok :
                                  /\ answer.status = IF code \in {"2XX", "default"} THEN "200" ELSE code
                                  /\ answer.body = op.responses[code]
                                  /\ code = "default" => requested = "default" \/ "204" \notin DOMAIN op.responses
    BY DEF AnswersDeclared, Fitting, WithBody
  <1> DEFINE op == FindMatchingOperation(method, request)
             of == Fitting(op.responses, requested)
             code == SelectResponse(op.responses, requested)
             answer == Answer(method, request, requested)
  <1>1. op \in Contents /\ op # None
    <2>1. \A k \in DOMAIN Build : Build[k].is \in Contents
      BY BuildHolds DEF Operation
    <2> QED
      BY <2>1, FirstMatch
  <1>2. DOMAIN op.responses \subseteq Codes
    BY <1>1, ContentsAssumption
  <1>3. answer = IF code \notin DOMAIN op.responses THEN Failed("MockResponseNotFound")
                 ELSE IF ~op.responses[code] /\ SuccessWithBody(code) THEN Failed("MockGenerationConflict")
                 ELSE [error |-> None, body |-> op.responses[code],
                       status |-> IF code \in {"2XX", "default"} THEN "200" ELSE code]
    BY <1>1 DEF Answer
  <1>4. /\ code \in DOMAIN op.responses <=> of # {}
        /\ of # {} => code \in IF WithBody(of) = {} THEN of ELSE WithBody(of)
        /\ code = "default" => requested = "default" \/ "204" \notin DOMAIN op.responses
    BY <1>2, Selected
  <1>5. of # {} /\ SuccessWithBody(code) => code \in WithBody(of)
    BY <1>4 DEF WithBody, SuccessWithBody
  <1> HIDE DEF op, of, code, answer
  <1>6. CASE of = {}
    <2>1. answer.error = "MockResponseNotFound"
      BY <1>3, <1>4, <1>6 DEF Failed
    <2> QED
      BY <1>6, <2>1, NoneAssumption DEF op, of, answer
  <1>7. CASE of # {} /\ ~op.responses[code] /\ SuccessWithBody(code)
    <2>1. answer.error = "MockGenerationConflict"
      BY <1>3, <1>4, <1>7 DEF Failed
    <2> QED
      BY <1>5, <1>7, <2>1, NoneAssumption DEF op, of, answer
  <1>8. CASE of # {} /\ ~(~op.responses[code] /\ SuccessWithBody(code))
    <2>1. /\ answer.error = None /\ answer.body = op.responses[code]
          /\ answer.status = IF code \in {"2XX", "default"} THEN "200" ELSE code
      BY <1>3, <1>4, <1>8
    <2> QED
      BY <1>4, <1>8, <2>1, NoneAssumption DEF op, of, answer
  <1> QED
    BY <1>6, <1>7, <1>8 DEF op, of, code

-----------------------------------------------------------------------------
(* The theorems. *)

\* The keys are unique in every reachable state of every instance.
THEOREM Invariant == Spec => []IInv
  <1>1. IInv /\ [Next]_vars => IInv'
    BY InvariantStep
  <1> QED
    BY <1>1, InvariantInit, PTL DEF Spec

\* Rows keep their shape, whatever metadata documents have.
THEOREM TypeCorrect == Spec => []TypeOK
  <1>1. IInv => TypeOK
    BY DEF IInv
  <1> QED
    BY <1>1, Invariant, PTL

\* Taking a project's own document back in changes only what had references,
\* for any number of endpoints and however they came about.
THEOREM ReimportsAreIdle == Spec => []ReimportIsIdle
  BY Invariant, Idle, PTL

\* For any paths in the database's order, the literal one answers, or one that is
\* spelt in another way.
THEOREM LiteralPathsWin == Spec => []LiteralWins
  BY Invariant, LiteralAnswers, PTL

\* For any declared responses, mock answers are among them.
THEOREM AnswersAreDeclared == Spec => []AnswersDeclared
  BY Invariant, Answers, PTL

\* Edits and imports of any documents keep who made an endpoint.
THEOREM CreatorsKept == Spec => CreatorKept
  <1>1. ASSUME IInv, [Next]_vars
        PROVE  [\A e \in Ids :
                  endpoint[e] # None /\ endpoint'[e] # None =>
                  (endpoint[e].operation.meta # None =>
                     \/ endpoint'[e].operation.meta.createdBy = endpoint[e].operation.meta.createdBy
                     \/ \E f \in Ids \ {e} : /\ endpoint'[f] # endpoint[f] /\ endpoint'[f] # None
                                            /\ endpoint'[f].operation = endpoint'[e].operation)]_vars
    BY <1>1, InvariantStep DEF KeepsCreator
  <1> QED
    BY <1>1, Invariant, PTL DEF Spec, CreatorKept
=============================================================================
