----------------------------- MODULE OpenApiSpecs -----------------------------
(***************************************************************************)
(* What becomes of operations on their way between the endpoint rows and   *)
(* OpenAPI documents: OpenApiSpecBuilder assembles a document from the     *)
(* rows, SpecReconciliationService works out what an imported one changes, *)
(* EndpointsService stamps "x-app-metadata" into what it stores, and       *)
(* MockServerService answers requests from the document.                   *)
(*                                                                         *)
(* A document is a function from <<path, method>> to operations, some of   *)
(* which may be one object (a reference to a path item).  Versions and     *)
(* transactions are the subject of EndpointEditing: here a request is one  *)
(* step.  Methods are in lower case, as the DTO and the linter demand.     *)
(***************************************************************************)
EXTENDS Integers, Sequences, SequencesExt

CONSTANTS Users, Ids, Methods,
          Paths,     \* sequences of segments, in the order the database sorts them
          Params,    \* the segments that are parameters
          Lower(_),  \* a segment in lower case
          Contents,  \* an operation but for its metadata: [name, refs, responses]
          None

Codes == {"200", "201", "204", "302", "404", "2XX", "default"}
\* The order of Object.keys: array indices first, ascending.
CodeOrder == <<"200", "201", "204", "302", "404", "2XX", "default">>

\* "refs": the operation refers to the project's schema components.
\* "responses" says of the codes it declares whether there is a JSON schema.
ASSUME ContentsAssumption ==
  \A c \in Contents : /\ c = [name |-> c.name, refs |-> c.refs, responses |-> c.responses]
                      /\ DOMAIN c.responses \subseteq Codes
                      /\ \A s \in DOMAIN c.responses : c.responses[s] \in BOOLEAN
                      /\ c.refs \in BOOLEAN
                      /\ [c EXCEPT !.refs = FALSE] \in Contents

\* SQLite sorts byte by byte: a path comes before those that continue it, and
\* as the "{" of a parameter comes after whatever a literal segment begins with,
\* the first segment two paths differ in is a parameter in the later one unless
\* it is a literal in both.
ASSUME OrderAssumption ==
  /\ Paths \in Seq(Seq(STRING))
  /\ \A i, j \in DOMAIN Paths : i < j =>
       \/ /\ Len(Paths[i]) < Len(Paths[j])
          /\ \A h \in DOMAIN Paths[i] : Paths[i][h] = Paths[j][h]
       \/ \E d \in DOMAIN Paths[i] \cap DOMAIN Paths[j] :
            /\ \A h \in DOMAIN Paths[i] : h < d => Paths[i][h] = Paths[j][h]
            /\ Paths[i][d] # Paths[j][d]
            /\ Paths[i][d] \in Params => Paths[j][d] \in Params

VARIABLES endpoint  \* Ids -> the row, or None
vars == endpoint

PathSet == ToSet(Paths)
Keys == PathSet \X Methods
\* Who made and last edited it, as the metadata tells; seeded rows have none.
Metadata == [createdBy : Users \cup {"unknown"}, lastEditedBy : Users]
Operation == [is : Contents, meta : Metadata \cup {None}]
Row == [key : Keys, operation : Operation, creator : Users]

ASSUME NoneAssumption ==
  /\ None \notin Users \cup Codes \cup Metadata \cup Contents \cup Row
  /\ None \notin {"MockEndpointNotFound", "MockResponseNotFound", "MockGenerationConflict"}

TypeOK == endpoint \in [Ids -> Row \cup {None}]

Existing == {e \in Ids : endpoint[e] # None}
AtKey(k) == {e \in Existing : endpoint[e].key = k}

\* A seeded endpoint.
Init ==
  \E e \in Ids, k \in Keys, c \in Contents, u \in Users :
    endpoint = [x \in Ids |-> IF x = e THEN [key |-> k, creator |-> u,
                                             operation |-> [is |-> c, meta |-> None]]
                                       ELSE None]

-----------------------------------------------------------------------------
(* Linting. *)

Successes == {"200", "201", "204", "302", "2XX"}
\* operation-success-response is an error.
Lints(content) == DOMAIN content.responses \cap Successes # {}

-----------------------------------------------------------------------------
(* Assembling and reconciling. *)

\* A document of the rows.
Build == [k \in {endpoint[e].key : e \in Existing} |->
            endpoint[CHOOSE e \in Existing : endpoint[e].key = k].operation]

Meta(createdBy, u) == [createdBy |-> createdBy, lastEditedBy |-> u]

\* SwaggerParser.dereference puts the schemas in the references' place.
Dereferenced(op) == [op EXCEPT !.is.refs = FALSE]

\* Mutant: the metadata is compared with the rest.
ComparableWhole(op) == op
Comparable(op) == op.is

ToDelete(doc) == {e \in Existing : endpoint[e].key \notin DOMAIN doc}
ToUpdate(doc) == {e \in Existing \ ToDelete(doc) :
                    Comparable(endpoint[e].operation) # Comparable(doc[endpoint[e].key])}
ToCreate(doc) == {k \in DOMAIN doc : AtKey(k) = {}}

\* Mutant: the metadata of the document is taken over.
MetaOfDocument(doc, e, u) ==
  LET meta == doc[endpoint[e].key].meta
  IN  Meta(IF meta = None THEN "unknown" ELSE meta.createdBy, u)
\* buildUpdatedOperation: the row tells who made it, whatever the document says.
UpdatedMeta(doc, e, u) ==
  LET meta == endpoint[e].operation.meta
  IN  Meta(IF meta = None THEN "unknown" ELSE meta.createdBy, u)

\* What reconcile stamps into the operation of a key it updates or creates.
Stamp(doc, k, u) ==
  IF AtKey(k) = {} THEN Meta(u, u) ELSE UpdatedMeta(doc, CHOOSE e \in AtKey(k) : TRUE, u)

\* The result of reconcile, carried out.  The operations of the keys in
\* "shared" are one object: it keeps the stamp it gets last.
Import(u, document, shared) ==
  LET doc == [k \in DOMAIN document |-> Dereferenced(document[k])]
      written == ToCreate(doc) \cup {endpoint[e].key : e \in ToUpdate(doc)}
  IN  /\ \A k \in DOMAIN doc : Lints(doc[k].is)
      /\ \E id \in [ToCreate(doc) -> Ids \ Existing],
            last \in IF shared \cap written = {} THEN {None} ELSE shared \cap written :
           LET operation(k) ==
                 [doc[k] EXCEPT !.meta = Stamp(doc, IF k \in shared THEN last ELSE k, u)]
           IN  /\ \A k, l \in ToCreate(doc) : id[k] = id[l] => k = l
               /\ endpoint' = [e \in Ids |->
                    CASE e \in ToDelete(doc) -> None
                      [] e \in ToUpdate(doc) ->
                           [endpoint[e] EXCEPT !.operation = operation(endpoint[e].key)]
                      [] \E k \in ToCreate(doc) : id[k] = e ->
                           LET k == CHOOSE k \in ToCreate(doc) : id[k] = e
                           IN  [key |-> k, operation |-> operation(k), creator |-> u]
                      [] OTHER -> endpoint[e]]

\* What a client may make of a document: leave out or change one operation,
\* or have one refer to another.
Without(l) == [k \in DOMAIN Build \ {l} |-> Build[k]]
With(l, op) == [k \in DOMAIN Build \cup {l} |-> IF k = l THEN op ELSE Build[k]]
Imports(u) ==
  \/ \E l \in Keys : Import(u, Without(l), {})
  \/ \E l \in Keys, c \in Contents, m \in {None} \cup {Meta(v, v) : v \in Users} :
       Import(u, With(l, [is |-> c, meta |-> m]), {})
  \/ \E l \in Keys, k \in DOMAIN Build, c \in Contents :
       LET op == [is |-> c, meta |-> Build[k].meta]
       IN  Import(u, [With(l, op) EXCEPT ![k] = op], {k, l})

-----------------------------------------------------------------------------
(* The endpoint's routes. *)

Create(u, e, k, c) ==
  /\ endpoint[e] = None /\ Lints(c) /\ AtKey(k) = {}
  /\ endpoint' = [endpoint EXCEPT ![e] =
       [key |-> k, operation |-> [is |-> c, meta |-> Meta(u, u)], creator |-> u]]

\* Mutant: without metadata nobody made it.
CreatedByMeta(e, u) ==
  LET old == endpoint[e].operation.meta IN IF old = None THEN None ELSE old.createdBy
\* From the metadata, or else the row's creator.
CreatedBy(e, u) ==
  LET old == endpoint[e].operation.meta
  IN  IF old = None THEN endpoint[e].creator ELSE old.createdBy

\* The operation is replaced; what the body has for metadata is overwritten.
Update(u, e, k, c) ==
  /\ endpoint[e] # None /\ Lints(c) /\ AtKey(k) \subseteq {e}
  /\ endpoint' = [endpoint EXCEPT
       ![e].key = k,
       ![e].operation = [is |-> c, meta |-> Meta(CreatedBy(e, u), u)]]

Delete(e) ==
  /\ endpoint[e] # None
  /\ endpoint' = [endpoint EXCEPT ![e] = None]

Next ==
  \E u \in Users :
    \/ \E e \in Ids, k \in Keys, c \in Contents : Create(u, e, k, c) \/ Update(u, e, k, c)
    \/ \E e \in Ids : Delete(e)
    \/ Imports(u)

Spec == Init /\ [][Next]_vars

-----------------------------------------------------------------------------
(* The mock server. *)

\* path-to-regexp's match with its defaults: letters match in either case, and a
\* request may have a trailing slash, which is an empty last segment.
Matches(path, request) ==
  /\ \/ Len(request) = Len(path)
     \/ Len(request) = Len(path) + 1 /\ Last(request) = ""
  /\ \A i \in DOMAIN path :
       IF path[i] \in Params THEN request[i] # "" ELSE Lower(path[i]) = Lower(request[i])

\* Mutant: the rows come in the reverse order.
Reversed == Reverse(Paths)
\* getOpenApiSpec: orderBy path ascending.
Sorted == Paths

\* The operation of the first path that matches and has the method, or None.
FindMatchingOperation(method, request) ==
  LET fit == {i \in DOMAIN Sorted : Matches(Sorted[i], request) /\ <<Sorted[i], method>> \in DOMAIN Build}
  IN  IF fit = {} THEN None ELSE Build[<<Sorted[Min(fit)], method>>].is

\* Mutant: 204 is like the other codes.
StartsWith2(code) == code \in {"200", "201", "204", "2XX"}
SuccessWithBody(code) == code \in {"200", "201", "2XX"}

\* Object.keys(responses).find(...)
First(codes) == CodeOrder[Min({i \in DOMAIN CodeOrder : CodeOrder[i] \in codes})]

\* The code to answer with; a client may ask for one.
SelectResponse(responses, requested) ==
  LET declared == DOMAIN responses
      success == {code \in declared : SuccessWithBody(code)}
  IN  CASE requested # None -> requested
        [] requested = None /\ success # {} -> First(success)
        [] requested = None /\ success = {} /\ declared \cap {"204", "default"} # {} ->
             IF "204" \in declared THEN "204" ELSE "default"
        [] OTHER -> "200"

Failed(error) == [error |-> error, status |-> None, body |-> FALSE]

\* What a request gets: an error, or a status and whether there is a body.
Answer(method, request, requested) ==
  LET op == FindMatchingOperation(method, request)
      code == SelectResponse(op.responses, requested)
  IN  IF op = None THEN Failed("MockEndpointNotFound")
      ELSE IF code \notin DOMAIN op.responses THEN Failed("MockResponseNotFound")
      ELSE IF ~op.responses[code] /\ SuccessWithBody(code) THEN Failed("MockGenerationConflict")
      ELSE [error |-> None, body |-> op.responses[code],
            status |-> IF code \in {"2XX", "default"} THEN "200" ELSE code]

-----------------------------------------------------------------------------
(* Properties. *)

\* Requests for the paths, with a literal segment in each parameter's place.
Requests ==
  LET segments == (UNION {Range(p) : p \in PathSet}) \ Params
  IN  {[i \in DOMAIN p |-> IF p[i] \in Params THEN s ELSE p[i]] : p \in PathSet, s \in segments}

\* Taking the document of a project, and the same without its metadata, back
\* in creates, deletes and updates nothing but what had references in it
\* (reconcile, OpenApiSpecBuilder.build).
ReimportIsIdle ==
  LET stripped == [k \in DOMAIN Build |-> [Build[k] EXCEPT !.meta = None]]
  IN  \A document \in {Build, stripped} :
        LET doc == [k \in DOMAIN Build |-> Dereferenced(document[k])]
        IN  /\ ToDelete(doc) = {} /\ ToCreate(doc) = {}
            /\ ToUpdate(doc) = {e \in Existing : endpoint[e].operation.is.refs}

\* However an endpoint is edited or imported over, and whatever metadata
\* clients send, it goes on telling who made it, unless a document makes one
\* object of its operation and another's (EndpointsService.update, reconcile).
CreatorKept ==
  [][\A e \in Ids :
       endpoint[e] # None /\ endpoint'[e] # None =>
       (endpoint[e].operation.meta # None =>
          \/ endpoint'[e].operation.meta.createdBy = endpoint[e].operation.meta.createdBy
          \/ \E f \in Ids \ {e} : /\ endpoint'[f] # endpoint[f] /\ endpoint'[f] # None
                                 /\ endpoint'[f].operation = endpoint'[e].operation)]_vars

\* The path is the request's, without its trailing slash, or with capitals in the
\* first segment in which the two differ.
SpeltOtherwise(path, request) ==
  \/ request = Append(path, "")
  \/ \E d \in DOMAIN path \cap DOMAIN request :
       /\ \A h \in DOMAIN path : h < d => path[h] = request[h]
       /\ path[d] # request[d] /\ Lower(path[d]) = Lower(request[d])

\* A request for a path the project has literally is answered by it, though
\* paths with parameters match as well.  The matcher ignores case and the order
\* does not: only a path in another spelling is found before the literal one,
\* and that may be one with parameters (findMatchingOperation and the order of
\* getOpenApiSpec).
LiteralWins ==
  \A e \in Existing, request \in Requests :
    endpoint[e].key[1] = request
      => \E f \in Existing :
           /\ f = e \/ SpeltOtherwise(endpoint[f].key[1], request)
           /\ endpoint[f].key[2] = endpoint[e].key[2]
           /\ FindMatchingOperation(endpoint[e].key[2], request) = endpoint[f].operation.is

\* A mock answer has the code asked for, or else one of success if the operation
\* declares one, and has a body exactly if a schema is declared; it conflicts
\* only where a success code lacks one, and is missing only if nothing
\* fits (generateMockResponse, selectResponse).
AnswersDeclared ==
  \A method \in Methods, request \in Requests, requested \in Codes \cup {None} :
    LET op == FindMatchingOperation(method, request)
        declared == DOMAIN op.responses
        of == {code \in declared : CASE requested # None -> code = requested
                                    [] requested = None -> code \in {"200", "201", "204", "2XX", "default"}}
        ok == {code \in of : code \in {"200", "201", "2XX"}}
        answer == Answer(method, request, requested)
    IN  op # None =>
          /\ (of = {}) <=> (answer.error = "MockResponseNotFound")
          /\ answer.error = "MockGenerationConflict" => \E code \in ok : ~op.responses[code]
          /\ answer.error = None =>
               \E code \in IF ok = {} THEN of ELSE ok :
                  /\ answer.status = IF code \in {"2XX", "default"} THEN "200" ELSE code
                  /\ answer.body = op.responses[code]
                  /\ code = "default" => requested = "default" \/ "204" \notin declared
=============================================================================
