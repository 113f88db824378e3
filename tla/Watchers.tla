------------------------------ MODULE Watchers ------------------------------
(***************************************************************************)
(* Directory watchers: bot.c (subscription), messages.c (the three         *)
(* wired.file.* handlers), watcher.c (the snapshot and its diff) and the   *)
(* server they talk to.                                                    *)
(*                                                                         *)
(* A watcher keeps the names it knows in its directory ("files") and       *)
(* collects the answer to a list request in "newFiles"; when the answer    *)
(* ends, the names that are in newFiles and not in files are announced.    *)
(* One flag of the whole bot, "subscribing", says which of the two lists   *)
(* an entry goes to.                                                       *)
(*                                                                         *)
(* The server is external code: it answers the requests of a session in    *)
(* order and reports a change of a subscribed directory at once, which     *)
(* can fall in the middle of an answer.                                    *)
(***************************************************************************)
EXTENDS Naturals, Sequences, FiniteSets

CONSTANTS
  Files,        \* names a file can have in a watched directory
  NoFile,       \* the file field of a message that names no file
  Paths,        \* directories of the server
  NoPath,       \* the path of the listing when the server sends none
  Partial,      \* the names with extension WiredTransfer
  WatcherList,  \* the dictionary's <watchers>, in order
  MaxChanges,   \* bound: uploads and removals on the server
  MaxLosses,    \* bound: connection losses
  MaxReloads    \* bound: reloads of the dictionary

Watchers == DOMAIN WatcherList

WatcherType == [path : Paths, activated : BOOLEAN, outputs : Nat]

ASSUME FilesAssumption   == NoFile \notin Files /\ Partial \subseteq Files
ASSUME PathsAssumption   == NoPath \notin Paths
ASSUME WatcherAssumption == WatcherList \in Seq(WatcherType)
ASSUME BoundsAssumption  == /\ MaxChanges \in Nat
                            /\ MaxLosses \in Nat
                            /\ MaxReloads \in Nat

PathOf(w) == WatcherList[w].path

VARIABLES
  (* The server. *)
  dir,          \* the files of each directory
  subscribed,   \* the directories this session is subscribed to
  listing,      \* the answer being sent: its directory and the rest of it
  (* The channels of the session. *)
  toServer,
  toBot,
  (* The bot. *)
  link,         \* "offline", "online" (wr_connected) or "crashed"
  loaded,       \* the watchers 1..loaded are in bot->watchers
  subscribing,
  files,
  newFiles,
  (* Bounds and history. *)
  changes, losses, reloads,   \* made so far
  initial,      \* what each directory held at the start
  arrivals,     \* how often each file came to be in each directory
  posts,        \* how often each watcher announced each file
  unseen        \* arrivals that no notice and no later answer reports

server  == <<dir, subscribed, listing>>
channel == <<toServer, toBot>>
bot     == <<link, loaded, subscribing, files, newFiles>>
budget  == <<changes, losses, reloads>>
history == <<initial, arrivals, posts, unseen>>
vars    == <<server, channel, bot, budget, history>>

RequestOps   == {"list", "subscribe", "unsubscribe"}
Request      == [op : RequestOps, path : Paths]
Message      == [type : {"file_list"}, path : Paths, file : Files]
                  \cup [type : {"file_list_done", "directory_changed"},
                        path : Paths, file : {NoFile}]
Idle         == [path |-> NoPath, rest |-> {}]

TypeOK ==
  /\ dir \in [Paths -> SUBSET Files]
  /\ subscribed \in SUBSET Paths
  /\ listing \in [path : Paths, rest : SUBSET Files] \cup {Idle}
  /\ toServer \in Seq(Request)
  /\ toBot \in Seq(Message)
  /\ link \in {"offline", "online", "crashed"}
  /\ loaded \in 0..Len(WatcherList)
  /\ subscribing \in BOOLEAN
  /\ files \in [Watchers -> SUBSET Files]
  /\ newFiles \in [Watchers -> SUBSET Files]
  /\ changes \in Nat /\ losses \in Nat /\ reloads \in Nat
  /\ initial \in [Paths -> SUBSET Files]
  /\ arrivals \in [Paths -> [Files -> Nat]]
  /\ posts \in [Watchers -> [Files -> Nat]]
  /\ unseen \in [Paths -> SUBSET Files]

(* The process before its first connection: the dictionary is loaded and   *)
(* no watcher has seen its directory.                                      *)
Init ==
  /\ dir \in [Paths -> SUBSET Files]
  /\ subscribed = {}
  /\ listing = Idle
  /\ toServer = <<>>
  /\ toBot = <<>>
  /\ link = "offline"
  /\ loaded = Len(WatcherList)
  /\ subscribing = FALSE
  /\ files = [w \in Watchers |-> {}]
  /\ newFiles = [w \in Watchers |-> {}]
  /\ changes = 0 /\ losses = 0 /\ reloads = 0
  /\ initial = dir
  /\ arrivals = [p \in Paths |-> [f \in Files |-> IF f \in dir[p] THEN 1 ELSE 0]]
  /\ posts = [w \in Watchers |-> [f \in Files |-> 0]]
  /\ unseen = [p \in Paths |-> {}]

-----------------------------------------------------------------------------
(* The server (external).                                                  *)

Notice(p) ==
  IF p \in subscribed
    THEN Append(toBot, [type |-> "directory_changed", path |-> p, file |-> NoFile])
    ELSE toBot

Upload(p, f) ==
  /\ changes < MaxChanges
  /\ f \notin dir[p]
  /\ dir' = [dir EXCEPT ![p] = @ \cup {f}]
  /\ arrivals' = [arrivals EXCEPT ![p][f] = @ + 1]
  /\ unseen' = IF p \in subscribed THEN unseen
                                   ELSE [unseen EXCEPT ![p] = @ \cup {f}]
  /\ toBot' = Notice(p)
  /\ changes' = changes + 1
  /\ UNCHANGED <<losses, reloads, subscribed, listing, toServer, bot, initial, posts>>

Remove(p, f) ==
  /\ changes < MaxChanges
  /\ f \in dir[p]
  /\ dir' = [dir EXCEPT ![p] = @ \ {f}]
  /\ toBot' = Notice(p)
  /\ changes' = changes + 1
  /\ UNCHANGED <<losses, reloads, subscribed, listing, toServer, bot, history>>

(* The next request of the session is taken when the answer to the one     *)
(* before it is complete.                                                  *)
Takes(op) ==
  /\ listing = Idle
  /\ toServer # <<>>
  /\ Head(toServer).op = op
  /\ toServer' = Tail(toServer)

ServeList ==
  /\ Takes("list")
  /\ LET p == Head(toServer).path IN
       /\ listing' = [path |-> p, rest |-> dir[p]]
       /\ unseen' = [unseen EXCEPT ![p] = {}]
  /\ UNCHANGED <<dir, subscribed, toBot, bot, budget, initial, arrivals, posts>>

ServeSubscribe ==
  /\ Takes("subscribe")
  /\ subscribed' = subscribed \cup {Head(toServer).path}
  /\ UNCHANGED <<dir, listing, toBot, bot, budget, history>>

ServeUnsubscribe ==
  /\ Takes("unsubscribe")
  /\ subscribed' = subscribed \ {Head(toServer).path}
  /\ UNCHANGED <<dir, listing, toBot, bot, budget, history>>

SendEntry(f) ==
  /\ f \in listing.rest
  /\ toBot' = Append(toBot, [type |-> "file_list", path |-> listing.path, file |-> f])
  /\ listing' = [listing EXCEPT !.rest = @ \ {f}]
  /\ UNCHANGED <<dir, subscribed, toServer, bot, budget, history>>

SendDone ==
  /\ listing.path # NoPath
  /\ listing.rest = {}
  /\ toBot' = Append(toBot,
                [type |-> "file_list_done", path |-> listing.path, file |-> NoFile])
  /\ listing' = Idle
  /\ UNCHANGED <<dir, subscribed, toServer, bot, budget, history>>

-----------------------------------------------------------------------------
(* The bot.                                                                *)

\* A slip: the path of the watcher is not compared.
MatchesAny(p) == 1..loaded

(* wb_bot_watcher_for_path: the first watcher in memory with this path.    *)
Matches(p) == {w \in 1..loaded : PathOf(w) = p}
WatcherFor(p) == CHOOSE w \in Matches(p) : \A v \in Matches(p) : w <= v

(* The watcher a message about p is for, as a set of at most one: the      *)
(* handlers do nothing when there is none or it is not activated.          *)
Target(p) ==
  {w \in Matches(p) : w = WatcherFor(p) /\ WatcherList[w].activated}

Receives(type) ==
  /\ link = "online"
  /\ toBot # <<>>
  /\ Head(toBot).type = type
  /\ toBot' = Tail(toBot)

(* wr_message_file_list; the parent of the entry's path is Head(toBot).path *)
FileList ==
  /\ Receives("file_list")
  /\ LET m == Head(toBot)
         add(list) == [w \in Watchers |->
                        IF w \in Target(m.path) THEN list[w] \cup {m.file}
                                                ELSE list[w]]
     IN IF subscribing
          THEN files' = add(files) /\ UNCHANGED newFiles
          ELSE newFiles' = add(newFiles) /\ UNCHANGED files
  /\ UNCHANGED <<server, toServer, link, loaded, subscribing, budget, history>>

\* Slips: known files, or unfinished transfers, are not left out.
AnnouncedKnown(w) ==
  IF WatcherList[w].outputs > 0 THEN newFiles[w] \ Partial ELSE {}
AnnouncedPartial(w) ==
  IF WatcherList[w].outputs > 0 THEN newFiles[w] \ files[w] ELSE {}

(* The files wb_watcher_files_diff posts for watcher w. *)
Announced(w) ==
  IF WatcherList[w].outputs > 0 THEN (newFiles[w] \ files[w]) \ Partial ELSE {}

(* wr_message_file_list_done and wb_watcher_files_diff. *)
FileListDone ==
  /\ Receives("file_list_done")
  /\ LET diffed == IF subscribing THEN {} ELSE Target(Head(toBot).path) IN
       /\ posts' = [w \in Watchers |-> [f \in Files |->
                     IF w \in diffed /\ f \in Announced(w) THEN posts[w][f] + 1
                                                          ELSE posts[w][f]]]
       /\ files' = [w \in Watchers |->
                     IF w \in diffed THEN newFiles[w] ELSE files[w]]
       /\ newFiles' = [w \in Watchers |->
                        IF w \in diffed THEN {} ELSE newFiles[w]]
  /\ UNCHANGED <<server, toServer, link, loaded, subscribing, budget,
                 initial, arrivals, unseen>>

\* A slip: a notice that arrives before the first answer is skipped.
DirectoryChangedSkipped ==
  /\ Receives("directory_changed")
  /\ subscribing' = FALSE
  /\ LET p == Head(toBot).path IN
       toServer' = IF Target(p) # {} /\ ~subscribing
                     THEN Append(toServer, [op |-> "list", path |-> p])
                     ELSE toServer
  /\ UNCHANGED <<server, link, loaded, files, newFiles, budget, history>>

(* wr_message_file_directory_changed: the flag of the whole bot first. *)
DirectoryChanged ==
  /\ Receives("directory_changed")
  /\ subscribing' = FALSE
  /\ LET p == Head(toBot).path IN
       toServer' = IF Target(p) # {} THEN Append(toServer, [op |-> "list", path |-> p])
                                     ELSE toServer
  /\ UNCHANGED <<server, link, loaded, files, newFiles, budget, history>>

\* Slips: the first listing is not asked for; a freed path is sent.
SubscriptionsOnly(n) == [i \in 1..n |-> [op |-> "subscribe", path |-> PathOf(i)]]
UnsubscriptionsFreed(n) == [i \in 1..n |-> [op |-> "unsubscribe", path |-> NoPath]]

(* wb_bot_subscribe_watchers over the watchers 1..n: list, then subscribe. *)
Subscriptions(n) ==
  [i \in 1..(2 * n) |-> [op   |-> IF i % 2 = 1 THEN "list" ELSE "subscribe",
                         path |-> PathOf((i + 1) \div 2)]]

Unsubscriptions(n) ==
  [i \in 1..n |-> [op |-> "unsubscribe", path |-> PathOf(i)]]

(* wr_client_connect after a login, for the first time or again. *)
Connect ==
  /\ link = "offline"
  /\ link' = "online"
  /\ subscribing' = (subscribing \/ loaded > 0)
  /\ toServer' = Subscriptions(loaded)
  /\ UNCHANGED <<server, toBot, loaded, files, newFiles, budget, history>>

(* The session ends; wr_client_disconnect leaves the watchers as they are. *)
LoseConnection ==
  /\ link = "online"
  /\ losses < MaxLosses
  /\ link' = "offline"
  /\ toServer' = <<>>
  /\ toBot' = <<>>
  /\ listing' = Idle
  /\ subscribed' = {}
  /\ losses' = losses + 1
  /\ UNCHANGED <<changes, reloads, dir, loaded, subscribing, files, newFiles, history>>

(* wb_bot_reload_configuration: new watchers, empty snapshots. The array   *)
(* of the old ones is enumerated for the unsubscriptions after it was      *)
(* released, so they are sent, or lost, or the process dies.  A dictionary *)
(* that does not load leaves the watchers before the fault and subscribes  *)
(* to none.                                                                *)
Reload(n) ==
  /\ link # "crashed"
  /\ reloads < MaxReloads
  /\ reloads' = reloads + 1
  /\ loaded' = n
  /\ files' = [w \in Watchers |-> {}]
  /\ newFiles' = [w \in Watchers |-> {}]
  /\ \E ok \in {n = Len(WatcherList), FALSE}, freed \in {Unsubscriptions(loaded), <<>>} :
       /\ subscribing' = (subscribing \/ (ok /\ n > 0))
       /\ toServer' = IF link = "online"
                        THEN toServer \o freed \o (IF ok THEN Subscriptions(n) ELSE <<>>)
                        ELSE toServer
  /\ UNCHANGED <<changes, losses, server, toBot, link, history>>

ReloadCrash ==
  /\ link # "crashed"
  /\ reloads < MaxReloads
  /\ reloads' = reloads + 1
  /\ link' = "crashed"
  /\ toServer' = <<>>
  /\ toBot' = <<>>
  /\ listing' = Idle
  /\ subscribed' = {}
  /\ UNCHANGED <<changes, losses, dir, loaded, subscribing, files, newFiles, history>>

-----------------------------------------------------------------------------
Serve == \/ ServeList
         \/ ServeSubscribe
         \/ ServeUnsubscribe
         \/ \E f \in Files : SendEntry(f)
         \/ SendDone

Handle == \/ FileList
          \/ FileListDone
          \/ DirectoryChanged

Next == \/ \E p \in Paths, f \in Files : Upload(p, f) \/ Remove(p, f)
        \/ Serve
        \/ Handle
        \/ Connect
        \/ LoseConnection
        \/ \E n \in 0..Len(WatcherList) : Reload(n)
        \/ ReloadCrash

Spec == Init /\ [][Next]_vars

(* The server answers what it was asked and the run loop hands every       *)
(* message that arrived to its handler; changes, losses and reloads need   *)
(* not happen.                                                             *)
FairSpec == Spec /\ WF_vars(Serve) /\ WF_vars(Handle)
-----------------------------------------------------------------------------
(* Properties. *)

Quiet == link = "online" /\ toServer = <<>> /\ toBot = <<>> /\ listing = Idle

Active(w) == w <= loaded /\ Target(PathOf(w)) = {w}

Present(f, p) == IF f \in initial[p] THEN 1 ELSE 0

(* A watcher announces a file no more often than the file was uploaded to  *)
(* its own directory since the process started: what was there before is   *)
(* not announced, and no upload is announced twice, whatever notices and   *)
(* answers overlap and wherever the connection is lost in an answer        *)
(* (files and newFiles survive wr_client_disconnect).                      *)
AnnouncesOnlyUploads ==
  \A w \in Watchers, f \in Files :
    posts[w][f] + Present(f, PathOf(w)) <= arrivals[PathOf(w)][f]

(* No announcement names a file that was never in the watcher's own        *)
(* directory, whatever is lost, reloaded or mixed up between the answers   *)
(* of several watchers.                                                    *)
AnnouncesRealFiles ==
  \A w \in Watchers, f \in Files :
    posts[w][f] > 0 => arrivals[PathOf(w)][f] > 0

(* Only the first watcher of a directory in the dictionary, if it is       *)
(* activated, ever announces, and never an unfinished transfer.            *)
OthersStaySilent ==
  \A w \in Watchers, f \in Files :
    posts[w][f] > 0 =>
      /\ WatcherList[w].activated
      /\ \A v \in Watchers : PathOf(v) = PathOf(w) => w <= v
      /\ f \notin Partial

(* When nothing is in flight a watcher knows every file of its directory   *)
(* that was listed or reported since the subscription.                     *)
QuietKnowsAll ==
  Quiet => \A w \in Watchers :
             Active(w) => dir[PathOf(w)] \ unseen[PathOf(w)] \subseteq files[w]

(* A listed or reported file is eventually known, unless it is removed or  *)
(* the connection is lost first.                                           *)
ReportedIsLearned ==
  \A w \in Watchers, f \in Files :
    (Active(w) /\ link = "online" /\ f \in dir[PathOf(w)] \ unseen[PathOf(w)])
      ~> (f \in files[w] \/ f \notin dir[PathOf(w)] \/ link # "online" \/ ~Active(w))
=============================================================================
