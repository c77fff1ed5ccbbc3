---------------------------- MODULE ProfilePictures ----------------------------
(***************************************************************************)
(* Profile pictures: FileInterceptor stores an upload, ImageFilePipe lets  *)
(* it through, FilesService moves it among the avatars and unlinks the     *)
(* picture it replaces, the row of the user is written last, and what was  *)
(* moved is unlinked again if that fails.  ProfileService and              *)
(* AdminUsersService do the same; a creation has nothing to replace.       *)
(***************************************************************************)
EXTENDS PictureState, FiniteSets

Request == [pc : {"new", "uploaded", "move", "clean", "row", "undo", "done"},
            op : {"create", "update"}, user : Users \cup {None},
            old : Path \cup {None}, new : Path \cup {None}]
Blank(pc) == [pc |-> pc, op |-> "update", user |-> None, old |-> None, new |-> None]

fileVars == <<avatars, tmp>>
rowVars == <<taken, picture>>
historyVars == <<cut, given, shared>>
vars == <<destination, rowVars, fileVars, now, upload, historyVars>>

TypeOK ==
  /\ destination \in Destinations
  /\ taken \subseteq Users /\ picture \in [Users -> Path \cup {None}]
  /\ avatars \subseteq Path /\ tmp \subseteq Requests
  /\ now \in 0..MaxTime
  /\ upload \in [Requests -> Request]
  /\ cut \subseteq Users /\ given \subseteq Path /\ shared \subseteq Path

Init ==
  /\ destination \in Destinations
  /\ taken = FirstUsers /\ picture = [u \in Users |-> None]
  /\ avatars = {} /\ tmp = {} /\ now = 0
  /\ upload = [r \in Requests |-> Blank("new")]
  /\ cut = {} /\ given = {} /\ shared = {}

-----------------------------------------------------------------------------
At(r, pc) == upload[r].pc = pc
Goto(r, pc) == upload' = [upload EXCEPT ![r].pc = pc]
Done(r) == upload' = [upload EXCEPT ![r] = Blank("done")]

\* The interceptor writes the temporary file.
Intercept(r, op, u) ==
  /\ At(r, "new")
  /\ op = "update" => u \in taken
  /\ upload' = [upload EXCEPT ![r] = [pc |-> "uploaded", op |-> op, user |-> u, old |-> None, new |-> None]]
  /\ tmp' = tmp \cup {r}
  /\ UNCHANGED <<destination, rowVars, avatars, now, historyVars>>

\* The file is too large, or no image, or another field is invalid: the
\* temporary file stays.
Reject(r) ==
  /\ At(r, "uploaded")
  /\ Done(r)
  /\ UNCHANGED <<destination, rowVars, fileVars, now, historyVars>>

\* `${username}-${Date.now()}`
NameNow(r) == [user |-> upload[r].user, at |-> now]

\* The user is found, with the picture he has; the new one gets its name.
FindUser(r) ==
  /\ At(r, "uploaded")
  /\ LET new == NameNow(r)
         old == IF upload[r].op = "create" THEN None ELSE picture[upload[r].user]
     IN  /\ upload' = [upload EXCEPT ![r] = [pc |-> "move", op |-> upload[r].op, user |-> upload[r].user,
                                        old |-> old, new |-> new]]
         /\ given' = given \cup {new}
         /\ shared' = shared \cup (given \cap {new})
  /\ UNCHANGED <<destination, rowVars, fileVars, now, cut>>

\* rename, which replaces a file of that name.
Moves(r) == avatars \cup {upload[r].new}

Move(r) ==
  /\ At(r, "move")
  /\ avatars' = Moves(r) /\ tmp' = tmp \ {r}
  /\ Goto(r, IF upload[r].old = None THEN "row" ELSE "clean")
  /\ UNCHANGED <<destination, rowVars, now, historyVars>>

\* The file system refuses: nothing was moved, and nothing is undone.
FailToMove(r) ==
  /\ At(r, "move")
  /\ Done(r)
  /\ UNCHANGED <<destination, rowVars, fileVars, now, historyVars>>

\* Mutant: the path is looked for among the public files.
UnlinksPublic(path) == avatars \ {path}
\* deleteFile: public paths begin with a slash, so isAbsolute says that they
\* are file names.  That is where the file is if the uploads are at the root;
\* otherwise nothing is found there, which is no error.
Unlinks(path) == IF destination = AtRoot THEN avatars \ {path} ELSE avatars

\* The replaced picture, while the row still has it.
Clean(r) ==
  /\ At(r, "clean")
  /\ avatars' = Unlinks(upload[r].old)
  /\ Goto(r, "row")
  /\ UNCHANGED <<destination, rowVars, tmp, now, historyVars>>

WriteRow(r) ==
  /\ At(r, "row")
  /\ upload[r].op = "create" => upload[r].user \notin taken
  /\ taken' = taken \cup {upload[r].user}
  /\ picture' = [picture EXCEPT ![upload[r].user] = upload[r].new]
  /\ Done(r)
  /\ UNCHANGED <<destination, fileVars, now, historyVars>>

\* The username is taken, or the database fails.
FailToWrite(r) ==
  /\ At(r, "row")
  /\ Goto(r, "undo")
  /\ cut' = cut \cup {upload[r].user}
  /\ UNCHANGED <<destination, rowVars, fileVars, now, given, shared>>

\* What was moved is unlinked; what was replaced is not put back.
Undo(r) ==
  /\ At(r, "undo")
  /\ avatars' = Unlinks(upload[r].new)
  /\ Done(r)
  /\ UNCHANGED <<destination, rowVars, tmp, now, historyVars>>

\* The process ends: files stay as they are.
Restart ==
  /\ upload' = [r \in Requests |-> IF InProgress(r) THEN Blank("done") ELSE upload[r]]
  /\ cut' = cut \cup {upload[r].user : r \in {x \in Requests : InProgress(x)}}
  /\ UNCHANGED <<destination, rowVars, fileVars, now, given, shared>>

Tick ==
  /\ now < MaxTime /\ now' = now + 1
  /\ UNCHANGED <<destination, rowVars, fileVars, upload, historyVars>>

-----------------------------------------------------------------------------
Upload(r) ==
  \/ \E op \in {"create", "update"}, u \in Users : Intercept(r, op, u)
  \/ Reject(r) \/ FindUser(r) \/ Move(r) \/ FailToMove(r) \/ Clean(r)
  \/ WriteRow(r) \/ FailToWrite(r) \/ Undo(r)

Next == (\E r \in Requests : Upload(r)) \/ Restart \/ Tick

Spec == Init /\ [][Next]_vars

-----------------------------------------------------------------------------
(* A claim of a comment that the code does not keep. *)

\* "Processes and saves a new profile picture, and cleans up the old one."
CleansUpTheOldOne ==
  [][\A r \in Requests : At(r, "clean") /\ At(r, "row")' /\ upload[r].old # upload[r].new =>
       upload[r].old \notin avatars']_vars
=============================================================================
