----------------------------- MODULE PictureState -----------------------------
(***************************************************************************)
(* The state of ProfilePictures: the rows, files and uploads that profile  *)
(* pictures are a matter of, and what is to hold of them at any time.      *)
(*                                                                         *)
(* A picture is named for the user and the millisecond, and the row keeps  *)
(* its public path; a path stands for the file of that name too.           *)
(***************************************************************************)
EXTENDS Integers

CONSTANTS Users,         \* usernames
          FirstUsers,    \* those taken at the start
          Requests,      \* uploads, each made once
          Destinations,  \* what UPLOAD_DESTINATION may be
          MaxTime,       \* bound on the clock
          None

Default == "./public/uploads"
AtRoot == "/uploads"

ASSUME UsersAssumption == FirstUsers \subseteq Users
ASSUME DestinationsAssumption == Destinations \subseteq {Default, AtRoot}
ASSUME ClockAssumption == MaxTime \in Nat

Path == [user : Users, at : 0..MaxTime]

ASSUME NoneAssumption == None \notin Users \cup Path

VARIABLES destination,
          taken,    \* the usernames there are
          picture,  \* Users -> profileImage
          avatars,  \* the files among the avatars
          tmp,      \* the uploads whose temporary file is there
          now,      \* the clock, in milliseconds
          upload,   \* Requests -> what has become of each
          cut,      \* history: users for whom a request failed or was cut off
          given,    \* history: names given to requests
          shared    \* history: those given to two

InProgress(r) == upload[r].pc \notin {"new", "done"}

\* The picture a row names is there, wherever requests of the user stop and
\* however they overlap.  With the uploads at the root, where pictures are
\* deleted before the row is written, it may be missing while a request for
\* the user goes on, after one that failed or was cut off, or if two requests
\* gave their pictures one name.
PictureThere ==
  \A u \in Users :
    \/ picture[u] \in avatars \cup {None}
    \/ /\ destination = AtRoot
       /\ \/ u \in cut \/ picture[u] \in shared
          \/ \E r \in Requests : InProgress(r) /\ upload[r].user = u
===============================================================================
