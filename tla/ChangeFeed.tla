----------------------------- MODULE ChangeFeed -----------------------------
(***************************************************************************)
(* What pkg/watcher promises its consumer: a bounded stream of paths, each *)
(* owed because the file changed since it was last announced.  The stream  *)
(* announces nothing that is not owed, never holds more than Cap entries,  *)
(* and is silent once it is shut.  What is owed may be stranded: a full    *)
(* channel has refused it, and it waits for the next change of any file.   *)
(* Watcher implements this specification.                                  *)
(***************************************************************************)
EXTENDS Integers, Sequences

CONSTANTS
  Paths,      \* the files watched
  Cap         \* capacity of the event channel

VARIABLES
  owed,       \* paths changed and not yet announced
  feed,       \* announced and not yet taken: the buffered channel
  open,       \* FALSE once the channel is closed
  stranded    \* nothing will look at what is owed before the next change

feedVars == <<owed, feed, open, stranded>>

FeedInit ==
  /\ owed = {}
  /\ feed = <<>>
  /\ open = TRUE
  /\ stranded = FALSE

(* A file changed: its path is owed, once however often it changes. *)
Note(p) ==
  /\ open
  /\ owed' = owed \cup {p}
  /\ stranded' = FALSE
  /\ UNCHANGED <<feed, open>>

(* A change is put back without anything that would announce it. *)
Strand ==
  /\ owed # {}
  /\ stranded' = TRUE
  /\ UNCHANGED <<owed, feed, open>>

Announce(p) ==
  /\ open
  /\ ~stranded
  /\ p \in owed
  /\ Len(feed) < Cap
  /\ feed' = Append(feed, p)
  /\ owed' = owed \ {p}
  /\ UNCHANGED <<open, stranded>>

Take ==
  /\ feed # <<>>
  /\ feed' = Tail(feed)
  /\ UNCHANGED <<owed, open, stranded>>

Shut ==
  /\ open
  /\ open' = FALSE
  /\ UNCHANGED <<owed, feed, stranded>>

FeedNext ==
  \/ \E p \in Paths : Note(p) \/ Announce(p)
  \/ Strand
  \/ Take
  \/ Shut

FeedSpec == FeedInit /\ [][FeedNext]_feedVars
=============================================================================
