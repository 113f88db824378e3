--------------------------- MODULE WatchersProofs ---------------------------
(* What holds of the directory watchers for every dictionary, every set of  *)
(* directories and files, and any number of changes, losses and reloads.    *)
EXTENDS Watchers, SequenceFacts, SequenceTheorems, TLAPS

USE FilesAssumption, PathsAssumption, WatcherAssumption, BoundsAssumption

(* A function on 1..n is a sequence. *)
LEMMA FunctionIsSeq ==
  ASSUME NEW S, NEW n \in Nat, NEW s \in [1..n -> S]
  PROVE  s \in Seq(S)
BY SeqDef

(* Every entry of the dictionary is a well-formed watcher. *)
LEMMA WatchersTyped ==
  /\ Watchers = 1..Len(WatcherList)
  /\ Len(WatcherList) \in Nat
  /\ \A w \in Watchers : WatcherList[w] \in WatcherType /\ PathOf(w) \in Paths
<1>1. Watchers = 1..Len(WatcherList) /\ Len(WatcherList) \in Nat
  BY LenProperties DEF Watchers
<1>2. ASSUME NEW w \in Watchers
      PROVE  WatcherList[w] \in WatcherType /\ PathOf(w) \in Paths
  <2>1. WatcherList[w] \in WatcherType
    BY <1>1, ElementOfSeq
  <2> QED BY <2>1 DEF PathOf, WatcherType
<1> QED BY <1>1, <1>2

(* The requests of wb_bot_subscribe_watchers and wb_bot_unsubscribe_watchers *)
(* name directories of the dictionary.                                       *)
LEMMA RequestsTyped ==
  ASSUME NEW n \in 0..Len(WatcherList)
  PROVE  Subscriptions(n) \in Seq(Request) /\ Unsubscriptions(n) \in Seq(Request)
<1>1. n \in Nat /\ 2 * n \in Nat /\ 1..n \subseteq Watchers
  BY WatchersTyped
<1>2. Subscriptions(n) \in [1..(2 * n) -> Request]
  <2>1. ASSUME NEW i \in 1..(2 * n) PROVE (i + 1) \div 2 \in Watchers
    BY <1>1
  <2> QED BY <2>1, WatchersTyped DEF Subscriptions, Request, RequestOps
<1>3. Unsubscriptions(n) \in [1..n -> Request]
  BY <1>1, WatchersTyped DEF Unsubscriptions, Request, RequestOps
<1> QED BY <1>1, <1>2, <1>3, FunctionIsSeq

(* A watcher a message can reach is a watcher of that directory. *)
LEMMA TargetIsWatcher ==
  ASSUME TypeOK, NEW p \in Paths
  PROVE  Target(p) \subseteq {w \in Watchers : PathOf(w) = p}
BY WatchersTyped DEF Target, Matches, TypeOK

-----------------------------------------------------------------------------
(* A received message is a message of its type about a directory. *)
LEMMA HeadTyped ==
  ASSUME TypeOK, NEW type, Receives(type)
  PROVE  /\ Head(toBot) \in Message /\ Head(toBot).type = type
         /\ Head(toBot).path \in Paths
         /\ type = "file_list" => Head(toBot).file \in Files
         /\ toBot' \in Seq(Message)
<1>1. toBot \in Seq(Message) /\ toBot # <<>>
  BY DEF TypeOK, Receives
<1>2. Head(toBot) \in Message /\ Tail(toBot) \in Seq(Message)
  BY <1>1
<1> QED BY <1>2 DEF Receives, Message

(* A taken request names a directory. *)
LEMMA RequestTyped ==
  ASSUME TypeOK, NEW op, Takes(op)
  PROVE  Head(toServer).path \in Paths /\ toServer' \in Seq(Request)
<1>1. toServer \in Seq(Request) /\ toServer # <<>>
  BY DEF TypeOK, Takes
<1>2. Head(toServer) \in Request /\ Tail(toServer) \in Seq(Request)
  BY <1>1
<1> QED BY <1>2 DEF Takes, Request

(* Every step of the bot and of the server keeps the types: in particular   *)
(* an entry always names a file, and requests and answers the directory of  *)
(* some watcher or of a request.                                            *)
THEOREM TypeCorrect == Spec => []TypeOK
<1>1. Init => TypeOK
  <2> SUFFICES ASSUME Init PROVE TypeOK
    OBVIOUS
  <2>1. Len(WatcherList) \in 0..Len(WatcherList)
    BY WatchersTyped
  <2>2. toServer \in Seq(Request) /\ toBot \in Seq(Message)
    BY DEF Init
  <2>3. arrivals \in [Paths -> [Files -> Nat]] /\ posts \in [Watchers -> [Files -> Nat]]
    BY DEF Init
  <2> QED BY <2>1, <2>2, <2>3 DEF Init, TypeOK
<1>2. TypeOK /\ [Next]_vars => TypeOK'
  <2> SUFFICES ASSUME TypeOK, [Next]_vars PROVE TypeOK'
    OBVIOUS
  <2> USE DEF TypeOK, server, channel, bot, budget, history
  <2>1. ASSUME NEW p \in Paths, NEW f \in Files, Upload(p, f) PROVE TypeOK'
    <3>1. toBot' \in Seq(Message)
      BY <2>1 DEF Upload, Notice, Message
    <3>2. arrivals' \in [Paths -> [Files -> Nat]]
      BY <2>1 DEF Upload
    <3> QED BY <2>1, <3>1, <3>2 DEF Upload
  <2>2. ASSUME NEW p \in Paths, NEW f \in Files, Remove(p, f) PROVE TypeOK'
    <3>1. toBot' \in Seq(Message)
      BY <2>2 DEF Remove, Notice, Message
    <3> QED BY <2>2, <3>1 DEF Remove
  <2>3. CASE ServeList
    BY <2>3, RequestTyped DEF ServeList
  <2>4. CASE ServeSubscribe
    BY <2>4, RequestTyped DEF ServeSubscribe
  <2>5. CASE ServeUnsubscribe
    BY <2>5, RequestTyped DEF ServeUnsubscribe
  <2>6. ASSUME NEW f \in Files, SendEntry(f) PROVE TypeOK'
    <3>1. listing \in [path : Paths, rest : SUBSET Files]
      BY <2>6 DEF SendEntry, Idle
    <3>2. toBot' \in Seq(Message)
      BY <2>6, <3>1 DEF SendEntry, Message
    <3> QED BY <2>6, <3>1, <3>2 DEF SendEntry
  <2>7. CASE SendDone
    <3>1. listing \in [path : Paths, rest : SUBSET Files]
      BY <2>7 DEF SendDone, Idle
    <3>2. toBot' \in Seq(Message)
      BY <2>7, <3>1 DEF SendDone, Message
    <3> QED BY <2>7, <3>2 DEF SendDone
  <2>8. CASE FileList
    <3> DEFINE p == Head(toBot).path
               f == Head(toBot).file
               added(list) == [w \in Watchers |->
                                IF w \in Target(p) THEN list[w] \cup {f} ELSE list[w]]
    <3>1. p \in Paths /\ f \in Files /\ toBot' \in Seq(Message)
      BY <2>8, HeadTyped DEF FileList
    <3>2. added(files) \in [Watchers -> SUBSET Files]
          /\ added(newFiles) \in [Watchers -> SUBSET Files]
      BY <3>1
    <3>3. /\ files' \in {files, added(files)}
          /\ newFiles' \in {newFiles, added(newFiles)}
      BY <2>8 DEF FileList
    <3> QED BY <2>8, <3>1, <3>2, <3>3 DEF FileList
  <2>9. CASE FileListDone
    BY <2>9, HeadTyped DEF FileListDone
  <2>10. CASE DirectoryChanged
    <3>1. toServer' \in Seq(Request)
      <4>1. Head(toBot).path \in Paths
        BY <2>10, HeadTyped DEF DirectoryChanged
      <4>2. [op |-> "list", path |-> Head(toBot).path] \in Request
        BY <4>1 DEF Request, RequestOps
      <4> QED BY <2>10, <4>2 DEF DirectoryChanged
    <3> QED BY <2>10, <3>1, HeadTyped DEF DirectoryChanged
  <2>11. CASE Connect
    BY <2>11, RequestsTyped DEF Connect
  <2>12. CASE LoseConnection
    BY <2>12 DEF LoseConnection
  <2>13. ASSUME NEW n \in 0..Len(WatcherList), Reload(n) PROVE TypeOK'
    <3>1. toServer' \in Seq(Request)
      <4>1. PICK ok \in BOOLEAN, freed \in {Unsubscriptions(loaded), <<>>} :
              toServer' = IF link = "online"
                            THEN toServer \o freed \o (IF ok THEN Subscriptions(n) ELSE <<>>)
                            ELSE toServer
        BY <2>13 DEF Reload
      <4>2. freed \in Seq(Request)
        <5>1. loaded \in 0..Len(WatcherList)
          OBVIOUS
        <5>2. Unsubscriptions(loaded) \in Seq(Request)
          BY <5>1, RequestsTyped, Zenon
        <5>3. <<>> \in Seq(Request)
          OBVIOUS
        <5> QED BY <5>2, <5>3
      <4>3. (IF ok THEN Subscriptions(n) ELSE <<>>) \in Seq(Request)
        <5>1. Subscriptions(n) \in Seq(Request)
          BY RequestsTyped
        <5> QED BY <5>1
      <4>4. toServer \o freed \in Seq(Request)
        BY <4>2
      <4> HIDE DEF TypeOK
      <4>5. toServer \in Seq(Request)
        BY DEF TypeOK
      <4> QED BY <4>1, <4>3, <4>4, <4>5
    <3> QED BY <2>13, <3>1 DEF Reload
  <2>14. CASE ReloadCrash
    BY <2>14 DEF ReloadCrash
  <2>15. CASE UNCHANGED vars
    BY <2>15 DEF vars
  <2> QED
    BY <2>1, <2>2, <2>3, <2>4, <2>5, <2>6, <2>7, <2>8, <2>9, <2>10, <2>11,
       <2>12, <2>13, <2>14, <2>15 DEF Next, Serve, Handle
<1> QED BY <1>1, <1>2, PTL DEF Spec

-----------------------------------------------------------------------------
(* The inductive invariant behind AnnouncesRealFiles: whatever the server   *)
(* holds, sends or has in flight, and whatever the bot remembers, is a file *)
(* that came to be in that very directory.                                  *)
Arrived(p) == {f \in Files : arrivals[p][f] > 0}

InFlightReal ==
  \A i \in 1..Len(toBot) :
    toBot[i].type = "file_list" => toBot[i].file \in Arrived(toBot[i].path)

RealFiles ==
  /\ \A p \in Paths : dir[p] \subseteq Arrived(p)
  /\ listing # Idle => listing.rest \subseteq Arrived(listing.path)
  /\ InFlightReal
  /\ \A w \in Watchers : files[w] \cup newFiles[w] \subseteq Arrived(PathOf(w))
  /\ AnnouncesRealFiles

(* Arrivals are never forgotten, and taking a message or adding one that is *)
(* real leaves only real ones in flight.                                    *)
LEMMA ArrivalsGrow ==
  ASSUME TypeOK, NEW p \in Paths, NEW f \in Files, Upload(p, f)
  PROVE  /\ \A q \in Paths : Arrived(q) \subseteq Arrived(q)'
         /\ f \in Arrived(p)'
BY DEF TypeOK, Upload, Arrived

LEMMA TakeKeepsReal ==
  ASSUME TypeOK, InFlightReal, UNCHANGED arrivals, NEW type, Receives(type)
  PROVE  InFlightReal'
<1>1. toBot \in Seq(Message) /\ toBot # <<>> /\ toBot' = Tail(toBot)
  BY DEF TypeOK, Receives
<1>2. \A i \in 1..Len(toBot') : i + 1 \in 1..Len(toBot) /\ toBot'[i] = toBot[i + 1]
  BY <1>1
<1> QED BY <1>2 DEF InFlightReal, Arrived

LEMMA AppendKeepsReal ==
  ASSUME TypeOK, InFlightReal, NEW m \in Message, toBot' = Append(toBot, m),
         \A q \in Paths : Arrived(q) \subseteq Arrived(q)',
         m.type = "file_list" => m.file \in Arrived(m.path)'
  PROVE  InFlightReal'
<1>1. toBot \in Seq(Message)
  BY DEF TypeOK
<1>2. ASSUME NEW i \in 1..Len(toBot')
      PROVE  \/ toBot'[i] = m
             \/ i \in 1..Len(toBot) /\ toBot'[i] = toBot[i] /\ toBot[i].path \in Paths
  BY <1>1 DEF Message
<1> QED BY <1>2 DEF InFlightReal

LEMMA RealFilesAlways == Spec => []RealFiles
<1>1. Init => RealFiles
  BY WatchersTyped DEF Init, RealFiles, InFlightReal, AnnouncesRealFiles, Arrived
<1>2. TypeOK /\ TypeOK' /\ RealFiles /\ [Next]_vars => RealFiles'
  <2> SUFFICES ASSUME TypeOK, TypeOK', RealFiles, [Next]_vars PROVE RealFiles'
    OBVIOUS
  <2> USE DEF server, channel, bot, budget, history
  <2>0. InFlightReal
    BY DEF RealFiles
  <2>1. ASSUME NEW p \in Paths, NEW f \in Files, Upload(p, f) PROVE RealFiles'
    <3>1. \A q \in Paths : Arrived(q) \subseteq Arrived(q)'
      BY <2>1, ArrivalsGrow
    <3>2. \A q \in Paths : dir'[q] \subseteq Arrived(q)'
      BY <2>1, <3>1, ArrivalsGrow DEF Upload, RealFiles, TypeOK
    <3>3. InFlightReal'
      <4>1. CASE p \in subscribed
        BY <2>0, <2>1, <3>1, <4>1, AppendKeepsReal DEF Upload, Notice, Message
      <4>2. CASE p \notin subscribed
        <5>1. UNCHANGED toBot
          BY <2>1, <4>2 DEF Upload, Notice
        <5>2. \A i \in 1..Len(toBot) : toBot[i] \in Message /\ toBot[i].path \in Paths
          BY DEF TypeOK, Message
        <5> QED BY <2>0, <3>1, <5>1, <5>2 DEF InFlightReal
      <4> QED BY <4>1, <4>2
    <3>4. (listing # Idle => listing.rest \subseteq Arrived(listing.path))'
      BY <2>1, <3>1 DEF Upload, RealFiles, TypeOK, Idle
    <3>5. \A w \in Watchers : files'[w] \cup newFiles'[w] \subseteq Arrived(PathOf(w))'
      BY <2>1, <3>1, WatchersTyped DEF Upload, RealFiles
    <3>6. AnnouncesRealFiles'
      BY <2>1, <3>1, WatchersTyped
      DEF Upload, RealFiles, AnnouncesRealFiles, Arrived, TypeOK
    <3> QED BY <3>2, <3>3, <3>4, <3>5, <3>6 DEF RealFiles
  <2>2. ASSUME NEW p \in Paths, NEW f \in Files, Remove(p, f) PROVE RealFiles'
    <3>1. UNCHANGED <<arrivals, listing, files, newFiles, posts>>
      BY <2>2 DEF Remove
    <3>2. \A q \in Paths : dir'[q] \subseteq Arrived(q)'
      BY <2>2 DEF Remove, RealFiles, TypeOK, Arrived
    <3>3. InFlightReal'
      <4>1. CASE p \in subscribed
        BY <2>0, <2>2, <3>1, <4>1, AppendKeepsReal DEF Remove, Notice, Message, Arrived
      <4>2. CASE p \notin subscribed
        BY <2>0, <2>2, <3>1, <4>2 DEF Remove, Notice, InFlightReal, Arrived
      <4> QED BY <4>1, <4>2
    <3> QED BY <3>1, <3>2, <3>3 DEF RealFiles, AnnouncesRealFiles, Arrived
  <2>3. CASE ServeList
    <3>1. Head(toServer).path \in Paths
      BY <2>3, RequestTyped DEF ServeList
    <3> QED BY <2>3, <3>1 DEF ServeList, RealFiles, InFlightReal, AnnouncesRealFiles, Arrived
  <2>4. CASE ServeSubscribe
    BY <2>4 DEF ServeSubscribe, RealFiles, InFlightReal, AnnouncesRealFiles, Arrived
  <2>5. CASE ServeUnsubscribe
    BY <2>5 DEF ServeUnsubscribe, RealFiles, InFlightReal, AnnouncesRealFiles, Arrived
  <2>6. ASSUME NEW f \in Files, SendEntry(f) PROVE RealFiles'
    <3> DEFINE m == [type |-> "file_list", path |-> listing.path, file |-> f]
    <3>1. listing \in [path : Paths, rest : SUBSET Files] /\ listing # Idle
      BY <2>6 DEF SendEntry, Idle, TypeOK
    <3>2. m \in Message /\ f \in Arrived(listing.path)
      BY <2>6, <3>1 DEF SendEntry, Message, RealFiles
    <3>3. UNCHANGED <<arrivals, dir, files, newFiles, posts>>
      BY <2>6 DEF SendEntry
    <3>4. InFlightReal'
      BY <2>0, <2>6, <3>2, <3>3, AppendKeepsReal DEF SendEntry, Arrived
    <3>5. (listing.rest \subseteq Arrived(listing.path))'
      BY <2>6, <3>1, <3>3 DEF SendEntry, RealFiles, Arrived
    <3> QED BY <3>3, <3>4, <3>5 DEF RealFiles, AnnouncesRealFiles, Arrived
  <2>7. CASE SendDone
    <3> DEFINE m == [type |-> "file_list_done", path |-> listing.path, file |-> NoFile]
    <3>1. m \in Message
      BY <2>7 DEF SendDone, Idle, TypeOK, Message
    <3>2. InFlightReal'
      BY <2>0, <2>7, <3>1, AppendKeepsReal DEF SendDone, Arrived
    <3> QED BY <2>7, <3>2 DEF SendDone, RealFiles, AnnouncesRealFiles, Arrived
  <2>8. CASE FileList
    <3> DEFINE p == Head(toBot).path
               f == Head(toBot).file
    <3>1. p \in Paths /\ f \in Files
      BY <2>8, HeadTyped DEF FileList
    <3>2. f \in Arrived(p)
      <4>1. toBot \in Seq(Message) /\ toBot # <<>> /\ toBot[1].type = "file_list"
        BY <2>8 DEF TypeOK, FileList, Receives
      <4> QED BY <2>0, <4>1 DEF InFlightReal
    <3>3. InFlightReal'
      BY <2>0, <2>8, TakeKeepsReal DEF FileList
    <3>4. UNCHANGED <<arrivals, dir, listing, posts>>
      BY <2>8 DEF FileList
    <3>5. ASSUME NEW w \in Watchers
          PROVE  files'[w] \cup newFiles'[w] \subseteq Arrived(PathOf(w))
      <4>1. files'[w] \cup newFiles'[w] \subseteq
              files[w] \cup newFiles[w] \cup (IF w \in Target(p) THEN {f} ELSE {})
        BY <2>8, <3>1 DEF FileList, TypeOK
      <4>2. w \in Target(p) => PathOf(w) = p
        BY <3>1, TargetIsWatcher
      <4> QED BY <3>2, <4>1, <4>2 DEF RealFiles
    <3> QED BY <3>3, <3>4, <3>5 DEF RealFiles, AnnouncesRealFiles, Arrived
  <2>9. CASE FileListDone
    <3>1. InFlightReal'
      BY <2>0, <2>9, TakeKeepsReal DEF FileListDone
    <3>2. UNCHANGED <<arrivals, dir, listing>>
      BY <2>9 DEF FileListDone
    <3>3. ASSUME NEW w \in Watchers
          PROVE  files'[w] \cup newFiles'[w] \subseteq files[w] \cup newFiles[w]
      BY <2>9, <3>3 DEF FileListDone
    <3>4. ASSUME NEW w \in Watchers, NEW f \in Files, posts'[w][f] > 0
          PROVE  posts[w][f] > 0 \/ f \in newFiles[w]
      BY <2>9, <3>4 DEF FileListDone, Announced
    <3>5. AnnouncesRealFiles'
      BY <3>2, <3>4, WatchersTyped DEF RealFiles, AnnouncesRealFiles, Arrived
    <3> QED BY <3>1, <3>2, <3>3, <3>5 DEF RealFiles, Arrived
  <2>10. CASE DirectoryChanged
    <3>1. InFlightReal'
      BY <2>0, <2>10, TakeKeepsReal DEF DirectoryChanged
    <3> QED BY <2>10, <3>1 DEF DirectoryChanged, RealFiles, AnnouncesRealFiles, Arrived
  <2>11. CASE Connect
    BY <2>11 DEF Connect, RealFiles, InFlightReal, AnnouncesRealFiles, Arrived
  <2>12. CASE LoseConnection
    BY <2>12 DEF LoseConnection, RealFiles, InFlightReal, AnnouncesRealFiles, Arrived
  <2>13. ASSUME NEW n \in 0..Len(WatcherList), Reload(n) PROVE RealFiles'
    BY <2>13 DEF Reload, RealFiles, InFlightReal, AnnouncesRealFiles, Arrived
  <2>14. CASE ReloadCrash
    BY <2>14 DEF ReloadCrash, RealFiles, InFlightReal, AnnouncesRealFiles, Arrived
  <2>15. CASE UNCHANGED vars
    BY <2>15 DEF vars, RealFiles, InFlightReal, AnnouncesRealFiles, Arrived
  <2> QED
    BY <2>1, <2>2, <2>3, <2>4, <2>5, <2>6, <2>7, <2>8, <2>9, <2>10, <2>11,
       <2>12, <2>13, <2>14, <2>15 DEF Next, Serve, Handle
<1> QED BY <1>1, <1>2, TypeCorrect, PTL DEF Spec

(* Nothing a watcher announces was never in its own directory: listings of  *)
(* several watchers cannot be mixed up, and what stays in newFiles over a   *)
(* disconnect, or in flight over a reload, is still about the directory it  *)
(* was collected for.                                                       *)
THEOREM RealFilesOnly == Spec => []AnnouncesRealFiles
<1>1. RealFiles => AnnouncesRealFiles
  BY DEF RealFiles
<1> QED
  BY <1>1, RealFilesAlways, PTL

-----------------------------------------------------------------------------
(* Which watcher announces. *)

(* The watcher a message is for is activated and the first of its directory  *)
(* in the whole dictionary, also when only its beginning is in memory.      *)
LEMMA TargetIsFirst ==
  ASSUME TypeOK, NEW p \in Paths, NEW w \in Target(p)
  PROVE  /\ w \in Watchers /\ PathOf(w) = p
         /\ WatcherList[w].activated
         /\ \A v \in Watchers : PathOf(v) = PathOf(w) => w <= v
<1>1. w \in Watchers /\ PathOf(w) = p
  BY TargetIsWatcher
<1>2. Matches(p) \subseteq Nat /\ w \in Matches(p) /\ w = WatcherFor(p) /\ WatcherList[w].activated
  BY WatchersTyped DEF Target, Matches, TypeOK
<1>3. \A v \in Matches(p) : w <= v
  <2>1. \E m \in Matches(p) : \A v \in Matches(p) : m <= v
    BY <1>2, LeastNumber
  <2> QED
    BY <1>2, <2>1 DEF WatcherFor
<1>4. ASSUME NEW v \in Watchers, PathOf(v) = PathOf(w) PROVE w <= v
  <2>1. v \in Nat /\ w \in 1..loaded /\ loaded \in Nat
    BY <1>2, WatchersTyped DEF Matches, TypeOK
  <2>2. CASE v <= loaded
    BY <1>1, <1>3, <1>4, <2>1, <2>2, WatchersTyped DEF Matches
  <2>3. CASE v > loaded
    BY <2>1, <2>3
  <2> QED
    BY <2>1, <2>2, <2>3
<1> QED
  BY <1>1, <1>2, <1>4

(* A watcher that is not activated, or that is not the first of its          *)
(* directory, never announces, nor is an unfinished transfer announced,     *)
(* whatever is in flight and however often the dictionary is reloaded.      *)
THEOREM OnlyTheFirstAnnounces == Spec => []OthersStaySilent
<1>1. Init => OthersStaySilent
  BY DEF Init, OthersStaySilent
<1>2. TypeOK /\ OthersStaySilent /\ [Next]_vars => OthersStaySilent'
  <2> SUFFICES ASSUME TypeOK, OthersStaySilent, [Next]_vars
               PROVE  OthersStaySilent'
    OBVIOUS
  <2>1. CASE FileListDone
    <3> SUFFICES ASSUME NEW w \in Watchers, NEW f \in Files, posts'[w][f] > 0
                 PROVE  /\ WatcherList[w].activated
                        /\ \A v \in Watchers : PathOf(v) = PathOf(w) => w <= v
                        /\ f \notin Partial
      BY DEF OthersStaySilent
    <3>1. CASE posts'[w][f] = posts[w][f]
      BY <3>1 DEF OthersStaySilent
    <3>2. CASE posts'[w][f] # posts[w][f]
      <4>1. w \in Target(Head(toBot).path) /\ f \in Announced(w)
        BY <2>1, <3>2 DEF FileListDone
      <4>2. Head(toBot).path \in Paths
        BY <2>1, HeadTyped DEF FileListDone
      <4>3. f \notin Partial
        BY <4>1 DEF Announced
      <4> QED
        BY <4>1, <4>2, <4>3, TargetIsFirst
    <3> QED
      BY <3>1, <3>2
  <2>2. CASE UNCHANGED posts
    BY <2>2 DEF OthersStaySilent
  <2> QED
    BY <2>1, <2>2
       DEF Next, Upload, Remove, Serve, ServeList, ServeSubscribe, ServeUnsubscribe, SendEntry,
           SendDone, Handle, FileList, DirectoryChanged, Connect, LoseConnection, Reload,
           ReloadCrash, vars, history
<1> QED
  BY <1>1, <1>2, TypeCorrect, PTL DEF Spec

-----------------------------------------------------------------------------
(* A dictionary with a single watcher, before the first reload.             *)

Path == PathOf(1)

FirstList == [op |-> "list", path |-> Path]
Subscribe == [op |-> "subscribe", path |-> Path]

IsEntry(i) == toBot[i].type = "file_list"
IsDone(i)  == toBot[i].type = "file_list_done"
IsNews(i)  == toBot[i].type = "directory_changed"

(* All that is under way is about the one directory, and between the         *)
(* sessions nothing is.                                                     *)
Alone ==
  /\ loaded = 1 /\ link \in {"offline", "online"}
  /\ subscribed \subseteq {Path}
  /\ listing # Idle => listing.path = Path
  /\ \A i \in DOMAIN toServer : toServer[i].path = Path
  /\ \A i \in DOMAIN toBot : toBot[i].path = Path
  /\ link = "offline" => toServer = <<>> /\ toBot = <<>> /\ listing = Idle /\ subscribed = {}

(* While the flag is set there is at most one listing under way, the first   *)
(* of the session, and no notice comes before its end.                      *)
Requested ==
  \/ toServer = <<FirstList, Subscribe>> /\ listing = Idle /\ toBot = <<>> /\ subscribed = {}
  \/ toServer = <<Subscribe>> /\ subscribed = {} /\ \A i \in DOMAIN toBot : ~IsNews(i)
  \/ toServer = <<>> /\ listing = Idle

FirstAnswer ==
  /\ listing # Idle => \A i \in DOMAIN toBot : ~IsDone(i)
  /\ \A i, j \in DOMAIN toBot : i < j /\ ~IsNews(j) => ~IsNews(i) /\ ~IsDone(i)
  /\ \A i \in DOMAIN toBot :
       IsEntry(i) => listing # Idle \/ \E j \in DOMAIN toBot : i < j /\ IsDone(j)

Beginning == subscribing /\ link = "online" => Requested /\ FirstAnswer

OneSession == TypeOK /\ Alone /\ Beginning

LEMMA OnlyTarget ==
  ASSUME OneSession, Len(WatcherList) = 1, WatcherList[1].activated
  PROVE  Watchers = {1} /\ Path \in Paths /\ Target(Path) = {1}
<1>1. Watchers = {1} /\ Path \in Paths
  BY WatchersTyped DEF Path
<1>2. Matches(Path) = {1}
  BY DEF OneSession, Alone, Matches, Path
<1>3. WatcherFor(Path) = 1
  BY <1>2 DEF WatcherFor
<1> QED
  BY <1>1, <1>2, <1>3 DEF Target

(* What taking and adding a message do to the places of the channel.         *)
LEMMA TakePlaces ==
  ASSUME NEW T, NEW s \in Seq(T), s # <<>>
  PROVE  /\ Len(s) \in Nat \ {0} /\ DOMAIN s = 1..Len(s) /\ Head(s) = s[1]
         /\ Len(Tail(s)) = Len(s) - 1 /\ DOMAIN Tail(s) = 1..(Len(s) - 1)
         /\ \A i \in DOMAIN Tail(s) : Tail(s)[i] = s[i + 1]
OBVIOUS

LEMMA AddPlaces ==
  ASSUME NEW T, NEW s \in Seq(T), NEW m
  PROVE  /\ Len(s) \in Nat /\ DOMAIN s = 1..Len(s)
         /\ DOMAIN Append(s, m) = 1..(Len(s) + 1)
         /\ \A i \in DOMAIN s : Append(s, m)[i] = s[i]
         /\ Append(s, m)[Len(s) + 1] = m
OBVIOUS

(* The first requests of a session. *)
LEMMA FirstRequests ==
  Subscriptions(1) = <<FirstList, Subscribe>>
<1>1. DOMAIN Subscriptions(1) = {1, 2}
  BY DEF Subscriptions
<1>2. Subscriptions(1)[1] = FirstList /\ Subscriptions(1)[2] = Subscribe
  BY DEF Subscriptions, FirstList, Subscribe, Path
<1>3. Subscriptions(1) = [i \in {1, 2} |-> IF i = 1 THEN FirstList ELSE Subscribe]
  BY <1>2 DEF Subscriptions
<1> QED
  BY <1>3

LEMMA NewsComes ==
  ASSUME OneSession, NEW p \in subscribed,
         toBot' = Append(toBot, [type |-> "directory_changed", path |-> p, file |-> NoFile]),
         UNCHANGED <<loaded, link, subscribed, listing, toServer, subscribing>>
  PROVE  Alone' /\ Beginning'
<1> DEFINE m == [type |-> "directory_changed", path |-> p, file |-> NoFile]
<1>1. /\ Len(toBot) \in Nat /\ DOMAIN toBot = 1..Len(toBot)
      /\ DOMAIN toBot' = 1..(Len(toBot) + 1)
      /\ \A i \in DOMAIN toBot : toBot'[i] = toBot[i]
      /\ toBot'[Len(toBot) + 1] = m
  BY AddPlaces DEF OneSession, TypeOK
<1>2. Alone'
  BY <1>1 DEF OneSession, Alone
<1>3. Beginning'
  <2> SUFFICES ASSUME subscribing, link = "online" PROVE Requested' /\ FirstAnswer'
    BY DEF Beginning
  <2>1. toServer = <<>> /\ listing = Idle
    BY DEF OneSession, Beginning, Requested
  <2>2. Requested'
    BY <2>1 DEF Requested
  <2>3. FirstAnswer
    BY DEF OneSession, Beginning
  <2>4. FirstAnswer'
    BY <1>1, <2>1, <2>3 DEF FirstAnswer, IsNews, IsDone, IsEntry
  <2> QED
    BY <2>2, <2>4
<1> QED
  BY <1>2, <1>3

LEMMA AnswerComes ==
  ASSUME OneSession, listing # Idle, NEW m \in Message,
         toBot' = Append(toBot, m), m.path = Path,
         \/ m.type = "file_list" /\ listing' # Idle /\ listing'.path = listing.path
         \/ m.type = "file_list_done" /\ listing' = Idle,
         UNCHANGED <<loaded, link, subscribed, toServer, subscribing>>
  PROVE  Alone' /\ Beginning'
<1>1. /\ Len(toBot) \in Nat /\ DOMAIN toBot = 1..Len(toBot)
      /\ DOMAIN toBot' = 1..(Len(toBot) + 1)
      /\ \A i \in DOMAIN toBot : toBot'[i] = toBot[i]
      /\ toBot'[Len(toBot) + 1] = m
  BY AddPlaces DEF OneSession, TypeOK
<1>2. Alone'
  BY <1>1 DEF OneSession, Alone
<1>3. Beginning'
  <2> SUFFICES ASSUME subscribing, link = "online" PROVE Requested' /\ FirstAnswer'
    BY DEF Beginning
  <2>1. toServer = <<Subscribe>> /\ subscribed = {} /\ \A i \in DOMAIN toBot : ~IsNews(i)
    BY DEF OneSession, Beginning, Requested
  <2>2. Requested'
    BY <1>1, <2>1 DEF Requested, IsNews
  <2>3. FirstAnswer
    BY DEF OneSession, Beginning
  <2>4. \A i \in DOMAIN toBot : ~IsNews(i) /\ ~IsDone(i)
    BY <2>1, <2>3 DEF FirstAnswer
  <2>5. FirstAnswer'
    BY <1>1, <2>4 DEF FirstAnswer, IsNews, IsDone, IsEntry
  <2> QED
    BY <2>2, <2>5
<1> QED
  BY <1>2, <1>3

LEMMA MessageRead ==
  ASSUME OneSession, NEW type, Receives(type),
         \/ ~subscribing'
         \/ subscribing' = subscribing /\ toServer' = toServer,
         \A i \in DOMAIN toServer' : toServer'[i].path = Path,
         UNCHANGED <<loaded, link, subscribed, listing>>
  PROVE  Alone' /\ Beginning'
<1>1. /\ Len(toBot) \in Nat \ {0} /\ DOMAIN toBot = 1..Len(toBot)
      /\ DOMAIN toBot' = 1..(Len(toBot) - 1)
      /\ \A i \in DOMAIN toBot' : toBot'[i] = toBot[i + 1]
  BY TakePlaces DEF OneSession, TypeOK, Receives
<1>2. Alone'
  BY <1>1 DEF OneSession, Alone, Receives
<1>3. CASE subscribing' = subscribing /\ toServer' = toServer
  <2> SUFFICES ASSUME subscribing, link = "online" PROVE Requested' /\ FirstAnswer'
    BY <1>2, <1>3 DEF Beginning
  <2>1. toBot # <<>>
    BY DEF Receives
  <2>2. Requested'
    BY <1>1, <1>3, <2>1 DEF OneSession, Beginning, Requested, IsNews
  <2>3. FirstAnswer
    BY DEF OneSession, Beginning
  <2>4. FirstAnswer'
    <3>1. listing # Idle => \A i \in DOMAIN toBot' : ~IsDone(i)'
      BY <1>1, <2>3 DEF FirstAnswer, IsDone
    <3>2. \A i, j \in DOMAIN toBot' : i < j /\ ~IsNews(j)' => ~IsNews(i)' /\ ~IsDone(i)'
      BY <1>1, <2>3 DEF FirstAnswer, IsNews, IsDone
    <3>3. ASSUME NEW i \in DOMAIN toBot', IsEntry(i)', listing = Idle
          PROVE  \E j \in DOMAIN toBot' : i < j /\ IsDone(j)'
      <4>1. PICK k \in DOMAIN toBot : i + 1 < k /\ IsDone(k)
        BY <1>1, <2>3, <3>3 DEF FirstAnswer, IsEntry
      <4>2. k - 1 \in DOMAIN toBot' /\ i < k - 1 /\ IsDone(k - 1)'
        BY <1>1, <4>1 DEF IsDone
      <4> QED
        BY <4>2
    <3> QED
      BY <3>1, <3>2, <3>3 DEF FirstAnswer
  <2> QED
    BY <2>2, <2>4
<1>4. CASE ~subscribing'
  BY <1>2, <1>4 DEF Beginning
<1> QED
  BY <1>2, <1>3, <1>4

LEMMA SessionKept ==
  ASSUME OneSession, TypeOK', Len(WatcherList) = 1, reloads = 0, reloads' = 0, [Next]_vars
  PROVE  OneSession'
<1> SUFFICES Alone' /\ Beginning'
  BY DEF OneSession
<1> USE DEF server, channel, bot, budget, history
<1>1. ASSUME UNCHANGED <<loaded, link, subscribed, listing, toServer, subscribing, toBot>>
      PROVE  Alone' /\ Beginning'
  BY <1>1 DEF OneSession, Alone, Beginning, Requested, FirstAnswer, IsNews, IsDone, IsEntry
<1>2. ASSUME NEW p \in Paths, UNCHANGED <<loaded, link, subscribed, listing, toServer,
                                          subscribing>>,
             toBot' = Notice(p)
      PROVE  Alone' /\ Beginning'
  BY <1>1, <1>2, NewsComes DEF Notice
<1>3. ASSUME NEW p \in Paths, NEW f \in Files, Upload(p, f) \/ Remove(p, f)
      PROVE  Alone' /\ Beginning'
  BY <1>2, <1>3 DEF Upload, Remove
<1>4. ASSUME NEW op, Takes(op)
      PROVE  /\ listing = Idle
             /\ \A i \in DOMAIN toServer' : toServer'[i].path = Path
             /\ Head(toServer).path = Path
             /\ subscribing /\ link = "online" =>
                  \/ op = "list" /\ toServer' = <<Subscribe>> /\ subscribed = {} /\ toBot = <<>>
                  \/ op = "subscribe" /\ toServer' = <<>>
             /\ link = "online"
  <2>1. toServer \in Seq(Request) /\ toServer # <<>> /\ toServer' = Tail(toServer)
    BY <1>4 DEF OneSession, TypeOK, Takes
  <2>2. /\ \A i \in DOMAIN toServer' : toServer'[i].path = Path
        /\ Head(toServer).path = Path /\ link = "online"
    BY <2>1, TakePlaces DEF OneSession, Alone
  <2>3. ASSUME subscribing
        PROVE  \/ op = "list" /\ toServer' = <<Subscribe>> /\ subscribed = {} /\ toBot = <<>>
               \/ op = "subscribe" /\ toServer' = <<>>
    <3>1. Head(toServer).op = op
      BY <1>4 DEF Takes
    <3>2. CASE /\ toServer = <<FirstList, Subscribe>> /\ listing = Idle
               /\ toBot = <<>> /\ subscribed = {}
      <4>1. Head(toServer) = FirstList /\ Tail(toServer) = <<Subscribe>>
        BY <3>2
      <4> QED
        BY <2>1, <3>1, <3>2, <4>1 DEF FirstList
    <3>3. CASE toServer = <<Subscribe>>
      <4>1. Head(toServer) = Subscribe /\ Tail(toServer) = <<>>
        BY <3>3
      <4> QED
        BY <2>1, <3>1, <4>1 DEF Subscribe
    <3> QED
      BY <2>1, <2>2, <2>3, <3>2, <3>3 DEF OneSession, Beginning, Requested
  <2> QED
    BY <1>4, <2>2, <2>3 DEF Takes
<1>5. CASE ServeList
  <2>1. PICK p : p = Head(toServer).path /\ listing' = [path |-> p, rest |-> dir[p]]
    BY <1>5 DEF ServeList
  <2>2. p = Path /\ UNCHANGED <<loaded, link, subscribed, subscribing, toBot>>
    BY <1>4, <1>5, <2>1 DEF ServeList
  <2>3. Alone'
    BY <1>4, <1>5, <2>1, <2>2 DEF ServeList, OneSession, Alone
  <2>4. subscribing /\ link = "online" =>
          toServer' = <<Subscribe>> /\ subscribed = {} /\ toBot = <<>>
    BY <1>4, <1>5 DEF ServeList
  <2> QED
    BY <2>2, <2>3, <2>4 DEF Beginning, Requested, FirstAnswer
<1>6. CASE ServeSubscribe
  <2>1. UNCHANGED <<loaded, link, listing, subscribing, toBot>> /\ subscribed' \subseteq {Path}
    BY <1>4, <1>6 DEF ServeSubscribe, OneSession, Alone
  <2>2. Alone'
    BY <1>4, <1>6, <2>1 DEF ServeSubscribe, OneSession, Alone
  <2>3. subscribing /\ link = "online" => toServer' = <<>> /\ listing' = Idle
    BY <1>4, <1>6 DEF ServeSubscribe
  <2> QED
    BY <2>1, <2>2, <2>3 DEF OneSession, Beginning, Requested, FirstAnswer, IsNews, IsDone, IsEntry
<1>7. CASE ServeUnsubscribe
  <2>1. UNCHANGED <<loaded, link, listing, subscribing, toBot>> /\ subscribed' \subseteq subscribed
    BY <1>7 DEF ServeUnsubscribe
  <2>2. Alone'
    BY <1>4, <1>7, <2>1 DEF ServeUnsubscribe, OneSession, Alone
  <2> QED
    BY <1>4, <1>7, <2>1, <2>2 DEF ServeUnsubscribe, Beginning
<1>8. CASE (\E f \in Files : SendEntry(f)) \/ SendDone
  <2>1. listing # Idle /\ listing.path \in Paths /\ listing.path = Path
    <3>1. Idle.path = NoPath /\ Idle.rest = {}
      BY DEF Idle
    <3>2. listing # Idle
      BY <1>8, <3>1 DEF SendEntry, SendDone
    <3> QED
      BY <3>2 DEF OneSession, TypeOK, Alone
  <2>2. ASSUME NEW f \in Files, SendEntry(f) PROVE Alone' /\ Beginning'
    <3>1. [type |-> "file_list", path |-> listing.path, file |-> f] \in Message
      BY <2>1 DEF Message
    <3>2. listing' # Idle /\ listing'.path = listing.path
      BY <2>1, <2>2 DEF SendEntry, Idle, OneSession, TypeOK
    <3> QED
      BY <2>1, <2>2, <3>1, <3>2, AnswerComes DEF SendEntry
  <2>3. CASE SendDone
    <3>1. [type |-> "file_list_done", path |-> listing.path, file |-> NoFile] \in Message
      BY <2>1 DEF Message
    <3> QED
      BY <2>1, <2>3, <3>1, AnswerComes DEF SendDone
  <2> QED
    BY <1>8, <2>2, <2>3
<1>9. CASE FileList \/ FileListDone
  BY <1>9, MessageRead DEF FileList, FileListDone, OneSession, Alone
<1>10. CASE DirectoryChanged
  <2>1. Head(toBot).path = Path
    BY <1>10, TakePlaces DEF DirectoryChanged, Receives, OneSession, TypeOK, Alone
  <2> DEFINE r == [op |-> "list", path |-> Head(toBot).path]
  <2>2. toServer' = toServer \/ toServer' = Append(toServer, r)
    BY <1>10 DEF DirectoryChanged
  <2>3. toServer \in Seq(Request) /\ r.path = Path
    BY <2>1 DEF OneSession, TypeOK
  <2> HIDE DEF r
  <2>4. \A i \in DOMAIN toServer' : toServer'[i].path = Path
    <3>1. CASE toServer' = toServer
      BY <3>1 DEF OneSession, Alone
    <3>2. CASE toServer' = Append(toServer, r)
      BY <2>3, <3>2, AddPlaces DEF OneSession, Alone
    <3> QED
      BY <2>2, <3>1, <3>2
  <2> QED
    BY <1>10, <2>4, MessageRead DEF DirectoryChanged
<1>11. CASE Connect
  <2>1. toServer' = <<FirstList, Subscribe>> /\ link' = "online"
    BY <1>11, FirstRequests DEF Connect, OneSession, Alone
  <2>2. \A i \in DOMAIN toServer' : toServer'[i].path = Path
    BY <2>1 DEF FirstList, Subscribe
  <2>3. UNCHANGED <<loaded, subscribed, listing,
                    toBot>> /\ toBot = <<>> /\ listing = Idle /\ subscribed = {}
    BY <1>11 DEF Connect, OneSession, Alone
  <2> QED
    BY <2>1, <2>2, <2>3 DEF OneSession, Alone, Beginning, Requested, FirstAnswer
<1>12. CASE LoseConnection
  BY <1>12 DEF LoseConnection, OneSession, Alone, Beginning
<1>13. ASSUME NEW n \in 0..Len(WatcherList), Reload(n) \/ ReloadCrash
       PROVE  FALSE
  BY <1>13 DEF Reload, ReloadCrash
<1>14. CASE UNCHANGED vars
  BY <1>1, <1>14 DEF vars
<1> QED
  BY <1>3, <1>5, <1>6, <1>7, <1>8, <1>9, <1>10, <1>11, <1>12, <1>13, <1>14,
     WatchersTyped DEF Next, Serve, Handle

(* What is known of a file f of the directory.  Its age grows by one when it *)
(* comes and when it goes, so that it is there while its age is odd; the     *)
(* server looks at the directory when it takes a request for a listing, and  *)
(* everything of an answer is as old as f was then: h says how old f was for *)
(* every message under way, and s for the answer that was begun last.       *)
Odd(x) == x % 2 = 1

Age(f) == 2 * arrivals[Path][f] - (IF f \in dir[Path] THEN 1 ELSE 0)

Lists  == \E i \in DOMAIN toServer : toServer[i].op = "list"
Unread == Lists \/ listing # Idle \/ \E i \in DOMAIN toBot : IsDone(i)

(* No listing of this session, and perhaps none at all, was read.           *)
Unsure == link # "online" \/ (subscribing /\ Unread)

Counted(f) == posts[1][f] + Present(f, Path)

(* How old f must be when the server looks next, or looked for what the bot  *)
(* has not read, if it was counted that often.                              *)
Least(f) ==
  CASE f \in files[1]                  -> 2 * Counted(f) - 1
    [] f \in newFiles[1] \ files[1]    -> 2 * Counted(f) + 1
    [] f \notin newFiles[1] \cup files[1] -> IF Unsure THEN 2 * Counted(f) - 1 ELSE 2 * Counted(f)

Rising(n, h, b, s) ==
  /\ h \in [1..n -> Nat]
  /\ b <= s /\ \A i \in 1..n : b <= h[i] /\ h[i] <= s
  /\ \A i, j \in 1..n : i <= j => h[i] <= h[j]

Ages(f, h, s) == Rising(Len(toBot), h, Least(f), s) /\ s <= Age(f)

(* What the bot holds of a listing when it reads place i of the channel.     *)
Collected == IF subscribing THEN files[1] ELSE newFiles[1]

Before(i) == {d \in DOMAIN toBot : d < i /\ IsDone(d)}

Held(f, i) ==
  \/ f \in Collected /\ Before(i) = {}
  \/ \E k \in DOMAIN toBot : /\ k < i /\ IsEntry(k) /\ toBot[k].file = f
                            /\ \A d \in Before(i) : d < k

EntriesThere(f, h) == \A i \in DOMAIN toBot : IsEntry(i) /\ toBot[i].file = f => Odd(h[i])
AnswersWhole(f, h) == \A i \in DOMAIN toBot : IsDone(i) /\ Odd(h[i]) => Held(f, i)

Listed(f, s) ==
  listing # Idle =>
    /\ f \in listing.rest => Odd(s)
    /\ Odd(s) => f \in listing.rest \/ Held(f, Len(toBot) + 1)

LastAnswer(h, s) ==
  listing = Idle =>
    \A i \in DOMAIN toBot : IsDone(i) => h[i] = s \/ \E j \in DOMAIN toBot : i < j /\ IsDone(j)

(* A file that is to be known is known, or will be asked for, or is in the   *)
(* last answer.                                                             *)
Learnt(f, s) ==
  link = "online" /\ f \in dir[Path] \ unseen[Path] =>
    \/ Lists
    \/ \E i \in DOMAIN toBot : IsNews(i)
    \/ Odd(s) /\ (listing # Idle \/ f \in files[1] \/ \E i \in DOMAIN toBot : IsDone(i))

Told(f, h, s) ==
  /\ Ages(f, h, s) /\ EntriesThere(f, h) /\ AnswersWhole(f, h)
  /\ Listed(f, s) /\ LastAnswer(h, s) /\ Learnt(f, s)

FollowsFile(f) == \E s \in Nat : \E h : Told(f, h, s)

Adds(m) == toBot' = Append(toBot, m)

LEMMA Telling ==
  ASSUME OneSession, NEW f, FollowsFile(f)
  PROVE  \E s \in Nat : \E h \in [DOMAIN toBot -> Nat] : Told(f, h, s)
<1>0. PICK s \in Nat : \E h : Told(f, h, s)
  BY DEF FollowsFile
<1>1. PICK h : Told(f, h, s)
  BY <1>0
<1>2. h \in [1..Len(toBot) -> Nat] /\ DOMAIN toBot = 1..Len(toBot)
  BY <1>1 DEF Told, Ages, Rising, OneSession, TypeOK
<1> QED
  BY <1>1, <1>2

LEMMA HeldMore ==
  ASSUME OneSession, OneSession', NEW m, Adds(m), Collected' = Collected, NEW f, NEW i \in Nat,
         i <= Len(toBot) + 1
  PROVE  Held(f, i) => Held(f, i)'
<1>1. /\ Len(toBot) \in Nat /\ DOMAIN toBot = 1..Len(toBot)
      /\ DOMAIN toBot' = 1..(Len(toBot) + 1)
      /\ \A k \in DOMAIN toBot : toBot'[k] = toBot[k]
  BY AddPlaces DEF Adds, OneSession, TypeOK
<1>2. Before(i)' = Before(i)
  BY <1>1 DEF Before, IsDone
<1> QED
  BY <1>1, <1>2 DEF Held, IsEntry

LEMMA HeldOn ==
  ASSUME OneSession, OneSession', NEW m, Adds(m), Collected' = Collected, NEW f,
         m.type # "file_list_done", NEW n \in Nat, n = Len(toBot),
         Held(f, n + 1) \/ (m.type = "file_list" /\ m.file = f)
  PROVE  Held(f, n + 2)'
<1>1. /\ DOMAIN toBot = 1..n /\ DOMAIN toBot' = 1..(n + 1)
      /\ \A k \in DOMAIN toBot : toBot'[k] = toBot[k]
      /\ toBot'[n + 1] = m
  BY AddPlaces DEF Adds, OneSession, TypeOK
<1>2. Before(n + 2)' = Before(n + 1)
  BY <1>1 DEF Before, IsDone
<1>3. CASE f \in Collected /\ Before(n + 1) = {}
  BY <1>2, <1>3 DEF Held
<1>4. ASSUME NEW k \in DOMAIN toBot, k < n + 1, IsEntry(k), toBot[k].file = f,
             \A d \in Before(n + 1) : d < k
      PROVE  Held(f, n + 2)'
  BY <1>1, <1>2, <1>4 DEF Held, IsEntry
<1>5. CASE m.type = "file_list" /\ m.file = f
  <2>1. \A d \in Before(n + 1) : d < n + 1
    BY DEF Before
  <2>2. n + 1 \in DOMAIN toBot' /\ n + 1 < n + 2 /\ IsEntry(n + 1)' /\ toBot'[n + 1].file = f
    BY <1>1, <1>5 DEF IsEntry
  <2> QED
    BY <1>2, <2>1, <2>2 DEF Held
<1> QED
  BY <1>3, <1>4, <1>5 DEF Held

(* Numbers that do not fall, with one more at their end, or without the first. *)
LEMMA AgesMore ==
  ASSUME NEW n \in Nat, NEW h, NEW s \in Nat, NEW a \in Int, NEW b \in Int, b <= a,
         Rising(n, h, a, s)
  PROVE  \E g : /\ Rising(n + 1, g, b, s)
                /\ \A i \in 1..n : g[i] = h[i]
                /\ g[n + 1] = s
<1> USE DEF Rising
<1> DEFINE g == [i \in 1..(n + 1) |-> IF i <= n THEN h[i] ELSE s]
<1>1. g \in [1..(n + 1) -> Nat] /\ (\A i \in 1..n : g[i] = h[i]) /\ g[n + 1] = s
  OBVIOUS
<1> HIDE DEF g
<1>2. ASSUME NEW i \in 1..(n + 1)
      PROVE  b <= g[i] /\ g[i] <= s
  <2>1. CASE i \in 1..n
    BY <1>1, <2>1
  <2>2. CASE i = n + 1
    BY <1>1, <2>2
  <2> QED
    BY <2>1, <2>2
<1>3. ASSUME NEW i \in 1..(n + 1), NEW j \in 1..(n + 1), i <= j
      PROVE  g[i] <= g[j]
  <2>1. CASE j \in 1..n
    BY <1>1, <1>3, <2>1
  <2>2. CASE j = n + 1
    BY <1>1, <1>2, <2>2
  <2> QED
    BY <2>1, <2>2
<1>4. Rising(n + 1, g, b, s)
  BY <1>1, <1>2, <1>3
<1> HIDE DEF Rising
<1> QED
  BY <1>1, <1>4

LEMMA AgesLess ==
  ASSUME NEW n \in Nat \ {0}, NEW h, NEW s \in Nat, NEW a \in Int, NEW b \in Int, b <= h[1],
         Rising(n, h, a, s)
  PROVE  \E g : Rising(n - 1, g, b, s) /\ \A i \in 1..(n - 1) : g[i] = h[i + 1]
<1> USE DEF Rising
<1> DEFINE g == [i \in 1..(n - 1) |-> h[i + 1]]
<1>1. g \in [1..(n - 1) -> Nat] /\ \A i \in 1..(n - 1) : g[i] = h[i + 1]
  OBVIOUS
<1> HIDE DEF g
<1>2. \A i \in 1..(n - 1) : h[1] <= g[i] /\ g[i] <= s
  BY <1>1
<1>3. ASSUME NEW i \in 1..(n - 1), NEW j \in 1..(n - 1), i <= j
      PROVE  g[i] <= g[j]
  BY <1>1, <1>3
<1>4. Rising(n - 1, g, b, s)
  BY <1>1, <1>2, <1>3
<1> HIDE DEF Rising
<1> QED
  BY <1>1, <1>4

LEMMA TellingMore ==
  ASSUME OneSession, OneSession', NEW f \in Files, NEW s \in Nat,
         NEW h \in [DOMAIN toBot -> Nat], Told(f, h, s), NEW m \in Message, Adds(m),
         Collected' = Collected,
         Least(f)' <= Least(f), Age(f) <= Age(f)', Least(f)' \in Int, Least(f) \in Int,
         Age(f) \in Int, Age(f)' \in Int,
         m.type = "file_list" /\ m.file = f => Odd(s),
         m.type = "file_list_done" /\ Odd(s) => Held(f, Len(toBot) + 1)
  PROVE  \E g : /\ Ages(f, g, s)' /\ EntriesThere(f, g)' /\ AnswersWhole(f, g)'
                /\ \A i \in DOMAIN toBot : g[i] = h[i]
                /\ g[Len(toBot) + 1] = s
<1>1. PICK n \in Nat : n = Len(toBot)
  BY DEF OneSession, TypeOK
<1>2. /\ DOMAIN toBot = 1..n /\ DOMAIN toBot' = 1..(n + 1)
      /\ \A i \in 1..n : toBot'[i] = toBot[i]
      /\ toBot'[n + 1] = m
  BY <1>1, AddPlaces DEF Adds, OneSession, TypeOK
<1>3. PICK a \in Int, b \in Int : a = Least(f) /\ b = Least(f)' /\ b <= a
  OBVIOUS
<1>4. Rising(n, h, a, s) /\ s <= Age(f)
  BY <1>1, <1>3 DEF Told, Ages
<1>5. PICK g : /\ Rising(n + 1, g, b, s)
               /\ \A i \in 1..n : g[i] = h[i]
               /\ g[n + 1] = s
  BY <1>3, <1>4, AgesMore
<1>6. Ages(f, g, s)'
  <2>1. s <= Age(f)'
    BY <1>4
  <2>2. Len(toBot') = n + 1
    BY <1>1 DEF Adds, OneSession, TypeOK
  <2> QED
    BY <1>3, <1>5, <2>1, <2>2 DEF Ages
<1>7. EntriesThere(f, g)'
  BY <1>2, <1>5 DEF Told, EntriesThere, IsEntry
<1>8. AnswersWhole(f, g)'
  <2> SUFFICES ASSUME NEW i \in 1..(n + 1), IsDone(i)', Odd(g[i])
               PROVE  Held(f, i)'
    BY <1>2 DEF AnswersWhole, Odd
  <2>1. ASSUME i <= n PROVE Held(f, i)
    <3>1. i \in DOMAIN toBot /\ IsDone(i) /\ Odd(h[i])
      BY <1>2, <1>5, <2>1 DEF IsDone
    <3> QED
      BY <3>1 DEF Told, AnswersWhole
  <2>2. ASSUME i = n + 1 PROVE Held(f, i)
    <3>1. m.type = "file_list_done" /\ Odd(s)
      BY <1>2, <1>5, <2>2 DEF IsDone
    <3> QED
      BY <1>1, <2>2, <3>1
  <2>3. Held(f, i)
    BY <2>1, <2>2
  <2> QED
    BY <1>1, <2>3, HeldMore
<1> QED
  BY <1>1, <1>2, <1>5, <1>6, <1>7, <1>8

LEMMA HeldTail ==
  ASSUME OneSession, OneSession', toBot # <<>>, toBot' = Tail(toBot), NEW f,
         IsEntry(1) /\ toBot[1].file = f => f \in Collected',
         f \in Collected /\ ~IsDone(1) => f \in Collected',
         NEW i \in Nat \ {0, 1}, Held(f, i)
  PROVE  Held(f, i - 1)'
<1>1. PICK n \in Nat \ {0} :
        /\ DOMAIN toBot = 1..n /\ DOMAIN toBot' = 1..(n - 1)
        /\ \A k \in DOMAIN toBot' : toBot'[k] = toBot[k + 1]
  BY TakePlaces DEF OneSession, TypeOK
<1>2. \A d \in Before(i - 1)' : d \in Nat /\ d + 1 \in Before(i)
  BY <1>1 DEF Before, IsDone
<1>3. ASSUME Before(i) = {}, f \in Collected'
      PROVE  Held(f, i - 1)'
  BY <1>2, <1>3 DEF Held
<1>4. CASE f \in Collected /\ Before(i) = {}
  <2>1. ~IsDone(1)
    BY <1>1, <1>4 DEF Before
  <2> QED
    BY <1>3, <1>4, <2>1
<1>5. ASSUME NEW k \in DOMAIN toBot, k < i, IsEntry(k), toBot[k].file = f,
             \A d \in Before(i) : d < k
      PROVE  Held(f, i - 1)'
  <2>1. CASE k = 1
    <3>1. Before(i) = {}
      BY <1>1, <1>5, <2>1 DEF Before
    <3> QED
      BY <1>3, <1>5, <2>1, <3>1
  <2>2. CASE k # 1
    <3>1. k - 1 \in DOMAIN toBot' /\ k - 1 < i - 1 /\ toBot'[k - 1] = toBot[k]
      BY <1>1, <1>5, <2>2
    <3>2. \A d \in Before(i - 1)' : d < k - 1
      BY <1>1, <1>2, <1>5
    <3> QED
      BY <1>5, <3>1, <3>2 DEF Held, IsEntry
  <2> QED
    BY <2>1, <2>2
<1> QED
  BY <1>4, <1>5 DEF Held

LEMMA PathTyped ==
  ASSUME Len(WatcherList) = 1
  PROVE  Path \in Paths /\ 1 \in Watchers /\ Watchers = {1}
BY WatchersTyped DEF Path

(* How often f was counted, and how old it must be: whole numbers.           *)
LEMMA LeastTyped ==
  ASSUME OneSession, OneSession', Len(WatcherList) = 1, NEW f \in Files
  PROVE  /\ Counted(f) \in Nat /\ Age(f) \in Int /\ Least(f) \in Int
         /\ 2 * Counted(f) - 1 <= Least(f) /\ Least(f) <= 2 * Counted(f) + 1
         /\ Counted(f)' \in Nat /\ Age(f)' \in Int /\ Least(f)' \in Int
<1>1. Path \in Paths /\ 1 \in Watchers
  BY PathTyped
<1>2. /\ posts[1][f] \in Nat /\ Present(f, Path) \in {0, 1} /\ arrivals[Path][f] \in Nat
      /\ posts'[1][f] \in Nat /\ Present(f, Path)' \in {0, 1} /\ arrivals'[Path][f] \in Nat
  BY <1>1 DEF OneSession, TypeOK, Present
<1>3. Counted(f) \in Nat /\ Counted(f)' \in Nat
  BY <1>2 DEF Counted
<1>4. Age(f) \in Int /\ Age(f)' \in Int
  BY <1>2 DEF Age
<1>5. \/ Least(f) = 2 * Counted(f) - 1
      \/ Least(f) = 2 * Counted(f) + 1
      \/ Least(f) = 2 * Counted(f)
  BY DEF Least
<1>6. \/ Least(f)' = 2 * Counted(f)' - 1
      \/ Least(f)' = 2 * Counted(f)' + 1
      \/ Least(f)' = 2 * Counted(f)'
  BY DEF Least
<1> QED
  BY <1>3, <1>4, <1>5, <1>6

LEMMA LeastRange ==
  ASSUME OneSession, Len(WatcherList) = 1, NEW f \in Files
  PROVE  /\ Counted(f) \in Nat /\ Age(f) \in Int /\ Least(f) \in Int
         /\ 2 * Counted(f) - 1 <= Least(f)
<1>1. Path \in Paths /\ 1 \in Watchers
  BY PathTyped
<1>2. posts[1][f] \in Nat /\ Present(f, Path) \in {0, 1} /\ arrivals[Path][f] \in Nat
  BY <1>1 DEF OneSession, TypeOK, Present
<1>3. Counted(f) \in Nat
  BY <1>2 DEF Counted
<1>4. Age(f) \in Int
  BY <1>2 DEF Age
<1>5. \/ Least(f) = 2 * Counted(f) - 1
      \/ Least(f) = 2 * Counted(f) + 1
      \/ Least(f) = 2 * Counted(f)
  BY DEF Least
<1> QED
  BY <1>3, <1>4, <1>5

(* Reading a message: the rest is as it was, if it was well to read it.      *)
LEMMA TellingLess ==
  ASSUME OneSession, OneSession', NEW f \in Files, NEW s \in Nat, NEW h, Told(f, h, s),
         toBot # <<>>, toBot' = Tail(toBot), UNCHANGED listing, Age(f) <= Age(f)',
         Least(f) \in Int, Least(f)' \in Int, Age(f) \in Int, Age(f)' \in Int,
         Least(f)' <= h[1],
         \/ /\ IsEntry(1) /\ toBot[1].file = f => f \in Collected'
            /\ f \in Collected /\ ~IsDone(1) => f \in Collected'
         \/ listing = Idle /\ \A i \in DOMAIN toBot : ~IsDone(i)
  PROVE  \E g : /\ Ages(f, g, s)' /\ EntriesThere(f, g)' /\ AnswersWhole(f, g)'
                /\ Listed(f, s)' /\ LastAnswer(g, s)'
<1>1. PICK n \in Nat \ {0} : n = Len(toBot)
  BY DEF OneSession, TypeOK
<1>2. /\ DOMAIN toBot = 1..n /\ DOMAIN toBot' = 1..(n - 1) /\ Len(toBot') = n - 1
      /\ \A i \in DOMAIN toBot' : i + 1 \in DOMAIN toBot /\ toBot'[i] = toBot[i + 1]
  <2>1. /\ DOMAIN toBot = 1..n /\ DOMAIN toBot' = 1..(n - 1) /\ Len(toBot') = n - 1
        /\ \A i \in DOMAIN toBot' : toBot'[i] = toBot[i + 1]
    BY <1>1, TakePlaces DEF OneSession, TypeOK
  <2> QED
    BY <2>1
<1>3. PICK a \in Int, b \in Int : a = Least(f) /\ b = Least(f)'
  OBVIOUS
<1>4. Rising(n, h, a, s) /\ s <= Age(f)
  BY <1>1, <1>3 DEF Told, Ages
<1>5. PICK g : Rising(n - 1, g, b, s) /\ \A i \in 1..(n - 1) : g[i] = h[i + 1]
  BY <1>3, <1>4, AgesLess
<1>6. Ages(f, g, s)'
  <2>1. s <= Age(f)'
    BY <1>4
  <2> QED
    BY <1>2, <1>3, <1>5, <2>1 DEF Ages
<1>7. EntriesThere(f, g)'
  BY <1>2, <1>5 DEF Told, EntriesThere, IsEntry
<1>8. ASSUME NEW i \in Nat \ {0}, Held(f, i + 1),
             listing # Idle \/ \E d \in DOMAIN toBot : IsDone(d)
      PROVE  Held(f, i)'
  BY <1>8, HeldTail
<1>9. AnswersWhole(f, g)'
  <2> SUFFICES ASSUME NEW i \in DOMAIN toBot', IsDone(i)', Odd(g[i])
               PROVE  Held(f, i)'
    BY DEF AnswersWhole, Odd
  <2>1. i + 1 \in DOMAIN toBot /\ IsDone(i + 1) /\ Odd(h[i + 1])
    BY <1>2, <1>5 DEF IsDone
  <2> QED
    BY <1>2, <1>8, <2>1 DEF Told, AnswersWhole
<1>10. Listed(f, s)'
  <2>1. Listed(f, s) /\ Len(toBot) + 1 = n + 1 /\ Len(toBot') + 1 = n
    BY <1>1, <1>2 DEF Told
  <2>2. listing # Idle /\ Held(f, n + 1) => Held(f, n)'
    BY <1>8
  <2> QED
    BY <2>1, <2>2 DEF Listed
<1>11. LastAnswer(g, s)'
  <2> SUFFICES ASSUME listing = Idle, NEW i \in DOMAIN toBot', IsDone(i)'
               PROVE  g[i] = s \/ \E j \in DOMAIN toBot' : i < j /\ IsDone(j)'
    BY DEF LastAnswer
  <2>1. i + 1 \in DOMAIN toBot /\ IsDone(i + 1) /\ g[i] = h[i + 1]
    BY <1>2, <1>5 DEF IsDone
  <2>2. h[i + 1] = s \/ \E j \in DOMAIN toBot : i + 1 < j /\ IsDone(j)
    BY <2>1 DEF Told, LastAnswer
  <2>3. ASSUME NEW j \in DOMAIN toBot, i + 1 < j, IsDone(j)
        PROVE  j - 1 \in DOMAIN toBot' /\ i < j - 1 /\ IsDone(j - 1)'
    BY <1>2, <2>3 DEF IsDone
  <2> QED
    BY <2>1, <2>2, <2>3
<1> QED
  BY <1>6, <1>7, <1>9, <1>10, <1>11

(* Nothing on the way, and nothing that is read or sent.                     *)
LEMMA TellingOn ==
  ASSUME NEW f \in Files, NEW s \in Nat, NEW h, Told(f, h, s), OneSession,
         UNCHANGED <<toBot, listing>>, Collected' = Collected,
         Least(f)' <= Least(f), Age(f) <= Age(f)', Least(f)' \in Int, Least(f) \in Int,
         Age(f) \in Int, Age(f)' \in Int
  PROVE  /\ Ages(f, h, s)' /\ EntriesThere(f, h)' /\ AnswersWhole(f, h)'
         /\ Listed(f, s)' /\ LastAnswer(h, s)'
<1>1. PICK n \in Nat : n = Len(toBot) /\ n = Len(toBot')
  BY DEF OneSession, TypeOK
<1>2. PICK a \in Int, b \in Int : a = Least(f) /\ b = Least(f)' /\ b <= a
  OBVIOUS
<1>3. Rising(n, h, a, s) /\ s <= Age(f)
  BY <1>1, <1>2 DEF Told, Ages
<1>4. Rising(n, h, b, s)
  BY <1>2, <1>3 DEF Rising
<1>5. Ages(f, h, s)'
  <2>1. s <= Age(f)'
    BY <1>3
  <2> QED
    BY <1>1, <1>2, <1>4, <2>1 DEF Ages
<1>6. \A i : Held(f, i)' <=> Held(f, i)
  BY DEF Held, Before, IsDone, IsEntry
<1> QED
  BY <1>5, <1>6 DEF Told, EntriesThere, AnswersWhole, Listed, LastAnswer, IsDone, IsEntry

(* The server works: what the bot has read and counted stays. *)
LEMMA LeastKept ==
  ASSUME OneSession, OneSession', Len(WatcherList) = 1, NEW f \in Files, Unsure => Unsure',
         UNCHANGED <<files, newFiles, posts, initial>>
  PROVE  Least(f)' <= Least(f)
<1>1. Counted(f)' = Counted(f) /\ Counted(f) \in Nat
  BY LeastTyped DEF Counted, Present
<1> QED
  BY <1>1 DEF Least

(* A file comes to the directory or goes. *)
LEMMA FileChanges ==
  ASSUME OneSession, OneSession', Len(WatcherList) = 1, NEW f \in Files, FollowsFile(f),
         NEW p \in Paths, NEW e \in Files, Upload(p, e) \/ Remove(p, e)
  PROVE  FollowsFile(f)'
<1>1. PICK s \in Nat, h \in [DOMAIN toBot -> Nat] : Told(f, h, s)
  BY Telling
<1>2. /\ UNCHANGED <<link, subscribing, files, newFiles, posts, initial, toServer, listing,
                     subscribed>>
      /\ toBot' = Notice(p)
  BY DEF Upload, Remove, bot, history
<1>3. /\ Counted(f) \in Nat /\ Age(f) \in Int /\ Age(f)' \in Int
      /\ Least(f) \in Int /\ Least(f)' \in Int
  BY LeastTyped
<1>4. /\ Path \in Paths /\ dir \in [Paths -> SUBSET Files] /\ unseen \in [Paths -> SUBSET Files]
      /\ arrivals \in [Paths -> [Files -> Nat]] /\ arrivals[Path][f] \in Nat
  <2>1. Path \in Paths
    BY PathTyped
  <2> QED
    BY <2>1 DEF OneSession, TypeOK
<1>5. Age(f) <= Age(f)'
  <2>1. CASE Upload(p, e)
    <3>1. /\ dir' = [dir EXCEPT ![p] = @ \cup {e}] /\ e \notin dir[p]
          /\ arrivals' = [arrivals EXCEPT ![p][e] = @ + 1]
      BY <2>1 DEF Upload
    <3>2. CASE p = Path /\ e = f
      <4>1. f \notin dir[Path] /\ f \in dir'[Path] /\ arrivals'[Path][f] = arrivals[Path][f] + 1
        BY <1>4, <3>1, <3>2
      <4> QED
        BY <1>4, <4>1 DEF Age
    <3>3. CASE ~(p = Path /\ e = f)
      <4>1. (f \in dir[Path] <=> f \in dir'[Path]) /\ arrivals'[Path][f] = arrivals[Path][f]
        BY <1>4, <3>1, <3>3
      <4> QED
        BY <1>4, <4>1 DEF Age
    <3> QED
      BY <3>2, <3>3
  <2>2. CASE Remove(p, e)
    <3>1. arrivals' = arrivals /\ (f \in dir'[Path] => f \in dir[Path])
      BY <1>4, <2>2 DEF Remove, history
    <3> QED
      BY <1>4, <3>1 DEF Age
  <2> QED
    BY <2>1, <2>2
<1>6. Collected' = Collected /\ (Lists' <=> Lists) /\ Counted(f)' = Counted(f)
  BY <1>2 DEF Collected, Lists, Counted, Present
<1>7. ASSUME Unsure' <=> Unsure
      PROVE  Least(f)' <= Least(f)
  BY <1>2, <1>7, LeastKept
<1>8. ASSUME p \notin subscribed
      PROVE  FollowsFile(f)'
  <2>1. UNCHANGED toBot
    BY <1>2, <1>8 DEF Notice
  <2>2. Unsure' <=> Unsure
    BY <1>2, <2>1 DEF Unsure, Unread, Lists, IsDone
  <2>3. /\ Ages(f, h, s)' /\ EntriesThere(f, h)' /\ AnswersWhole(f, h)'
        /\ Listed(f, s)' /\ LastAnswer(h, s)'
    BY <1>1, <1>2, <1>3, <1>5, <1>6, <1>7, <2>1, <2>2, TellingOn
  <2>4. f \in dir'[Path] \ unseen'[Path] => f \in dir[Path] \ unseen[Path]
    <3>1. CASE Upload(p, e)
      BY <1>4, <1>8, <3>1 DEF Upload
    <3>2. CASE Remove(p, e)
      BY <1>4, <3>2 DEF Remove, history
    <3> QED
      BY <3>1, <3>2
  <2>5. Learnt(f, s)'
    BY <1>1, <1>2, <1>6, <2>1, <2>4 DEF Told, Learnt, IsNews, IsDone
  <2> QED
    BY <2>3, <2>5 DEF Told, FollowsFile
<1>9. ASSUME p \in subscribed
      PROVE  FollowsFile(f)'
  <2>1. PICK m \in Message : Adds(m) /\ m.type = "directory_changed"
    <3> DEFINE m == [type |-> "directory_changed", path |-> p, file |-> NoFile]
    <3>1. m \in Message /\ m.type = "directory_changed" /\ toBot' = Append(toBot, m)
      BY <1>2, <1>9 DEF Notice, Message
    <3> QED
      BY <3>1 DEF Adds
  <2>2. PICK n \in Nat : n = Len(toBot)
    BY DEF OneSession, TypeOK
  <2>3. /\ DOMAIN toBot = 1..n /\ DOMAIN toBot' = 1..(n + 1) /\ Len(toBot') = n + 1
        /\ \A i \in DOMAIN toBot : toBot'[i] = toBot[i]
        /\ toBot'[n + 1] = m
    BY <2>1, <2>2, AddPlaces DEF Adds, OneSession, TypeOK
  <2>4. Unsure' <=> Unsure
    BY <1>2, <2>1, <2>3 DEF Unsure, Unread, Lists, IsDone
  <2>5. PICK g : /\ Ages(f, g, s)' /\ EntriesThere(f, g)' /\ AnswersWhole(f, g)'
                 /\ \A i \in DOMAIN toBot : g[i] = h[i]
    BY <1>1, <1>3, <1>5, <1>6, <1>7, <2>1, <2>4, TellingMore
  <2>6. Listed(f, s)'
    <3>1. Held(f, n + 1) => Held(f, n + 2)'
      BY <1>6, <2>1, <2>2, HeldOn
    <3> QED
      BY <1>1, <1>2, <2>2, <2>3, <3>1 DEF Told, Listed
  <2>7. LastAnswer(g, s)'
    <3> SUFFICES ASSUME listing = Idle, NEW i \in DOMAIN toBot', IsDone(i)'
                 PROVE  g[i] = s \/ \E j \in DOMAIN toBot' : i < j /\ IsDone(j)'
      BY <1>2 DEF LastAnswer
    <3>1. i \in DOMAIN toBot /\ IsDone(i) /\ g[i] = h[i]
      BY <2>1, <2>3, <2>5 DEF IsDone
    <3>2. h[i] = s \/ \E j \in DOMAIN toBot : i < j /\ IsDone(j)
      BY <1>1, <3>1 DEF Told, LastAnswer
    <3> QED
      BY <2>3, <3>1, <3>2 DEF IsDone
  <2>8. Learnt(f, s)'
    BY <2>1, <2>3 DEF Learnt, IsNews
  <2> QED
    BY <2>5, <2>6, <2>7, <2>8 DEF Told, FollowsFile
<1> QED
  BY <1>8, <1>9

(* A request is taken.  *)
LEMMA ListServed ==
  ASSUME OneSession, OneSession', RealFiles, Len(WatcherList) = 1, NEW f \in Files, FollowsFile(f),
         ServeList
  PROVE  FollowsFile(f)'
<1>1. PICK s \in Nat, h \in [DOMAIN toBot -> Nat] : Told(f, h, s)
  BY Telling
<1>2. UNCHANGED <<dir, arrivals, link, subscribing, files, newFiles, posts, initial, toBot>>
  BY DEF ServeList, bot
<1>3. /\ Counted(f) \in Nat /\ Age(f) \in Int /\ Age(f)' \in Int
      /\ Least(f) \in Int /\ Least(f)' \in Int
  BY LeastTyped
<1>4. Path \in Paths
  BY PathTyped
<1>5. PICK t \in Nat : t = Age(f)
  <2>1. arrivals[Path][f] \in Nat /\ (f \in dir[Path] => arrivals[Path][f] > 0)
    BY <1>4 DEF RealFiles, Arrived, OneSession, TypeOK
  <2> QED
    BY <2>1 DEF Age
<1>6. Age(f)' = t /\ (Odd(t) <=> f \in dir[Path])
  BY <1>2, <1>4, <1>5 DEF Age, Odd, OneSession, TypeOK
<1>7. listing' = [path |-> Path, rest |-> dir[Path]] /\ listing' # Idle
  <2>1. Head(toServer).path = Path
    BY TakePlaces DEF ServeList, Takes, OneSession, TypeOK, Alone
  <2>2. listing' = [path |-> Path, rest |-> dir[Path]]
    BY <2>1 DEF ServeList
  <2> QED
    BY <2>2, <1>4 DEF Idle
<1>8. Collected' = Collected /\ (Unsure => Unsure')
  BY <1>2, <1>7 DEF Collected, Unsure, Unread
<1>9. Ages(f, h, t)'
  <2>1. PICK n \in Nat : n = Len(toBot) /\ n = Len(toBot')
    BY <1>2 DEF OneSession, TypeOK
  <2>2. PICK a \in Int, b \in Int : a = Least(f) /\ b = Least(f)' /\ b <= a
    BY <1>2, <1>3, <1>8, LeastKept
  <2>3. Rising(n, h, a, s) /\ s <= t
    BY <1>1, <1>5, <2>1, <2>2 DEF Told, Ages
  <2>4. Rising(n, h, b, t)
    BY <2>2, <2>3 DEF Rising
  <2> QED
    BY <1>6, <2>1, <2>2, <2>4 DEF Ages
<1>10. EntriesThere(f, h)' /\ AnswersWhole(f, h)'
  <2>1. \A i : Held(f, i)' <=> Held(f, i)
    BY <1>2, <1>8 DEF Held, Before, IsDone, IsEntry
  <2> QED
    BY <1>1, <1>2, <2>1 DEF Told, EntriesThere, AnswersWhole, IsDone, IsEntry
<1>11. Listed(f, t)' /\ LastAnswer(h, t)'
  BY <1>6, <1>7 DEF Listed, LastAnswer
<1>12. Learnt(f, t)'
  BY <1>2, <1>6, <1>7 DEF Learnt
<1> QED
  BY <1>9, <1>10, <1>11, <1>12 DEF Told, FollowsFile

LEMMA SubscriptionServed ==
  ASSUME OneSession, OneSession', Len(WatcherList) = 1, NEW f \in Files, FollowsFile(f),
         ServeSubscribe \/ ServeUnsubscribe
  PROVE  FollowsFile(f)'
<1>1. PICK s \in Nat, h \in [DOMAIN toBot -> Nat] : Told(f, h, s)
  BY Telling
<1>2. UNCHANGED <<dir, arrivals, unseen, link, subscribing, files, newFiles, posts, initial, toBot,
                  listing>>
  BY DEF ServeSubscribe, ServeUnsubscribe, bot, history
<1>3. /\ Counted(f) \in Nat /\ Age(f) \in Int /\ Age(f)' \in Int
      /\ Least(f) \in Int /\ Least(f)' \in Int
  BY LeastTyped
<1>4. Lists => Lists'
  <2>1. toServer \in Seq(Request) /\ toServer # <<>> /\ toServer' = Tail(toServer)
    BY DEF ServeSubscribe, ServeUnsubscribe, Takes, OneSession, TypeOK
  <2>2. /\ DOMAIN toServer' = 1..(Len(toServer) - 1) /\ DOMAIN toServer = 1..Len(toServer)
        /\ Len(toServer) \in Nat
        /\ \A i \in DOMAIN toServer' : toServer'[i] = toServer[i + 1]
        /\ toServer[1].op # "list"
    BY <2>1, TakePlaces DEF ServeSubscribe, ServeUnsubscribe, Takes
  <2> SUFFICES ASSUME NEW i \in DOMAIN toServer, toServer[i].op = "list"
               PROVE  Lists'
    BY DEF Lists
  <2>3. i - 1 \in DOMAIN toServer' /\ toServer'[i - 1].op = "list"
    BY <2>2
  <2> QED
    BY <2>3 DEF Lists
<1>5. Collected' = Collected /\ (Unsure => Unsure') /\ Age(f)' = Age(f)
  BY <1>2, <1>4 DEF Collected, Unsure, Unread, Age, IsDone
<1>6. Least(f)' <= Least(f)
  BY <1>2, <1>5, LeastKept
<1>7. /\ Ages(f, h, s)' /\ EntriesThere(f, h)' /\ AnswersWhole(f, h)'
      /\ Listed(f, s)' /\ LastAnswer(h, s)'
  BY <1>1, <1>2, <1>3, <1>5, <1>6, TellingOn
<1>8. Learnt(f, s)'
  BY <1>1, <1>2, <1>4 DEF Told, Learnt, IsNews, IsDone
<1> QED
  BY <1>7, <1>8 DEF Told, FollowsFile

(* A session begins or ends. *)
LEMMA SessionBegins ==
  ASSUME OneSession, OneSession', Len(WatcherList) = 1, NEW f \in Files, FollowsFile(f), Connect
  PROVE  FollowsFile(f)'
<1>1. PICK s \in Nat, h \in [DOMAIN toBot -> Nat] : Told(f, h, s)
  BY Telling
<1>2. /\ UNCHANGED <<dir, arrivals, unseen, files, newFiles, posts, initial, toBot, listing>>
      /\ toBot = <<>> /\ subscribing' /\ link' = "online"
  <2>1. loaded = 1 /\ toBot = <<>>
    BY DEF Connect, OneSession, Alone
  <2>2. subscribing' = (subscribing \/ loaded > 0)
    BY DEF Connect
  <2>3. subscribing'
    <3>1. loaded > 0
      BY <2>1
    <3> QED
      BY <2>2, <3>1, Zenon
  <2> QED
    BY <2>1, <2>3 DEF Connect, server, history
<1>3. /\ Counted(f) \in Nat /\ Age(f) \in Int /\ Age(f)' \in Int
      /\ Least(f) \in Int /\ Least(f)' \in Int
  BY LeastTyped
<1>4. Lists'
  <2>1. toServer' = <<FirstList, Subscribe>>
    BY FirstRequests DEF Connect, OneSession, Alone
  <2>2. 1 \in DOMAIN toServer' /\ toServer'[1].op = "list"
    BY <2>1 DEF FirstList
  <2> QED
    BY <2>2 DEF Lists
<1>5. Unsure' /\ Age(f)' = Age(f)
  BY <1>2, <1>4 DEF Unsure, Unread, Age
<1>6. Least(f)' <= Least(f)
  BY <1>2, <1>5, LeastKept
<1>7. PICK a \in Int, b \in Int : a = Least(f) /\ b = Least(f)' /\ b <= a
  BY <1>3, <1>6
<1>8. Rising(0, h, b, s) /\ s <= Age(f)'
  <2>1. Len(toBot) = 0
    BY <1>2
  <2>2. Rising(0, h, a, s) /\ s <= Age(f)
    BY <1>1, <1>7, <2>1 DEF Told, Ages
  <2> QED
    BY <1>5, <1>7, <2>2 DEF Rising
<1>9. Ages(f, h, s)'
  <2>1. Len(toBot') = 0
    BY <1>2
  <2> QED
    BY <1>7, <1>8, <2>1 DEF Ages
<1>10. EntriesThere(f, h)' /\ AnswersWhole(f, h)' /\ Listed(f, s)' /\ LastAnswer(h, s)'
  <2>1. DOMAIN toBot' = {}
    BY <1>2
  <2>2. listing' = Idle
    BY <1>2 DEF Connect, OneSession, Alone
  <2> QED
    BY <2>1, <2>2 DEF EntriesThere, AnswersWhole, Listed, LastAnswer
<1>11. Learnt(f, s)'
  BY <1>4 DEF Learnt
<1> QED
  BY <1>9, <1>10, <1>11 DEF Told, FollowsFile

LEMMA SessionEnds ==
  ASSUME OneSession, OneSession', Len(WatcherList) = 1, NEW f \in Files, FollowsFile(f),
         LoseConnection
  PROVE  FollowsFile(f)'
<1>1. PICK s \in Nat, h \in [DOMAIN toBot -> Nat] : Told(f, h, s)
  BY Telling
<1>2. /\ UNCHANGED <<dir, arrivals, files, newFiles, posts, initial>>
      /\ toBot' = <<>> /\ listing' = Idle /\ link' = "offline"
  BY DEF LoseConnection, history
<1>3. /\ Counted(f) \in Nat /\ Age(f) \in Int /\ Age(f)' \in Int
      /\ Least(f) \in Int /\ Least(f)' \in Int
  BY LeastTyped
<1>4. Unsure' /\ Age(f)' = Age(f)
  BY <1>2 DEF Unsure, Age
<1>5. Least(f)' <= Least(f)
  BY <1>2, <1>4, LeastKept
<1>6. DOMAIN toBot' = {} /\ Len(toBot') = 0
  BY <1>2
<1> DEFINE g == [i \in 1..0 |-> 0]
<1>7. Ages(f, g, s)'
  <2>1. Least(f) <= s /\ s <= Age(f)
    BY <1>1 DEF Told, Ages, Rising
  <2>2. PICK b \in Int : b = Least(f)' /\ b <= s /\ s <= Age(f)'
    BY <1>3, <1>4, <1>5, <2>1
  <2>3. Rising(0, g, b, s)
    BY <2>2 DEF Rising
  <2> HIDE DEF g
  <2> QED
    BY <1>6, <2>2, <2>3 DEF Ages
<1>8. /\ EntriesThere(f, g)' /\ AnswersWhole(f, g)' /\ Listed(f, s)' /\ LastAnswer(g, s)'
      /\ Learnt(f, s)'
  BY <1>2, <1>6 DEF EntriesThere, AnswersWhole, Listed, LastAnswer, Learnt
<1> HIDE DEF g
<1> QED
  BY <1>7, <1>8 DEF Told, FollowsFile

(* The server goes on with its answer, or ends it.  *)
LEMMA EntrySent ==
  ASSUME OneSession, OneSession', Len(WatcherList) = 1, NEW f \in Files, FollowsFile(f),
         NEW e \in Files, SendEntry(e)
  PROVE  FollowsFile(f)'
<1>1. PICK s \in Nat, h \in [DOMAIN toBot -> Nat] : Told(f, h, s)
  BY Telling
<1>2. UNCHANGED <<dir, arrivals, unseen, link, subscribing, files, newFiles, posts, initial,
                  toServer>>
  BY DEF SendEntry, bot, history
<1>3. /\ Counted(f) \in Nat /\ Age(f) \in Int /\ Age(f)' \in Int
      /\ Least(f) \in Int /\ Least(f)' \in Int
  BY LeastTyped
<1>4. /\ listing # Idle /\ listing.path \in Paths /\ e \in listing.rest
      /\ listing' # Idle /\ listing'.rest = listing.rest \ {e}
  <2>1. listing # Idle
    BY DEF SendEntry, Idle
  <2> QED
    BY <2>1 DEF SendEntry, Idle, OneSession, TypeOK
<1>5. PICK m \in Message : Adds(m) /\ m.type = "file_list" /\ m.file = e
  <2> DEFINE m == [type |-> "file_list", path |-> listing.path, file |-> e]
  <2>1. m \in Message /\ m.type = "file_list" /\ m.file = e /\ toBot' = Append(toBot, m)
    BY <1>4 DEF SendEntry, Message
  <2> QED
    BY <2>1 DEF Adds
<1>6. PICK n \in Nat : n = Len(toBot)
  BY DEF OneSession, TypeOK
<1>7. /\ DOMAIN toBot = 1..n /\ DOMAIN toBot' = 1..(n + 1) /\ Len(toBot') = n + 1
      /\ \A i \in DOMAIN toBot : toBot'[i] = toBot[i]
      /\ toBot'[n + 1] = m
  BY <1>5, <1>6, AddPlaces DEF Adds, OneSession, TypeOK
<1>8. Collected' = Collected /\ (Unsure => Unsure') /\ Age(f)' = Age(f) /\ (Lists => Lists')
  BY <1>2, <1>4 DEF Collected, Unsure, Unread, Age, Lists
<1>9. Least(f)' <= Least(f)
  BY <1>2, <1>8, LeastKept
<1>10. f = e => Odd(s)
  BY <1>1, <1>4 DEF Told, Listed
<1>11. PICK g : Ages(f, g, s)' /\ EntriesThere(f, g)' /\ AnswersWhole(f, g)'
  BY <1>1, <1>3, <1>5, <1>8, <1>9, <1>10, TellingMore
<1>12. Listed(f, s)'
  <2>1. Held(f, n + 1) \/ f = e => Held(f, n + 2)'
    BY <1>5, <1>6, <1>8, HeldOn
  <2>2. /\ f \in listing.rest => Odd(s)
        /\ Odd(s) => f \in listing.rest \/ Held(f, n + 1)
    BY <1>1, <1>4, <1>6 DEF Told, Listed
  <2>3. /\ f \in listing'.rest => Odd(s)
        /\ Odd(s) => f \in listing'.rest \/ Held(f, n + 2)'
    BY <1>4, <2>1, <2>2
  <2> QED
    BY <1>7, <2>3 DEF Listed
<1>13. LastAnswer(g, s)'
  BY <1>4 DEF LastAnswer
<1>14. Learnt(f, s)'
  BY <1>1, <1>2, <1>4, <1>7, <1>8 DEF Told, Learnt, IsNews
<1> QED
  BY <1>11, <1>12, <1>13, <1>14 DEF Told, FollowsFile

LEMMA DoneSent ==
  ASSUME OneSession, OneSession', Len(WatcherList) = 1, NEW f \in Files, FollowsFile(f), SendDone
  PROVE  FollowsFile(f)'
<1>1. PICK s \in Nat, h \in [DOMAIN toBot -> Nat] : Told(f, h, s)
  BY Telling
<1>2. UNCHANGED <<dir, arrivals, unseen, link, subscribing, files, newFiles, posts, initial,
                  toServer>>
  BY DEF SendDone, bot, history
<1>3. /\ Counted(f) \in Nat /\ Age(f) \in Int /\ Age(f)' \in Int
      /\ Least(f) \in Int /\ Least(f)' \in Int
  BY LeastTyped
<1>4. listing # Idle /\ listing.path \in Paths /\ listing.rest = {} /\ listing' = Idle
  <2>1. listing # Idle
    BY DEF SendDone, Idle
  <2> QED
    BY <2>1 DEF SendDone, OneSession, TypeOK
<1>5. PICK m \in Message : Adds(m) /\ m.type = "file_list_done"
  <2> DEFINE m == [type |-> "file_list_done", path |-> listing.path, file |-> NoFile]
  <2>1. m \in Message /\ m.type = "file_list_done" /\ toBot' = Append(toBot, m)
    BY <1>4 DEF SendDone, Message
  <2> QED
    BY <2>1 DEF Adds
<1>6. PICK n \in Nat : n = Len(toBot)
  BY DEF OneSession, TypeOK
<1>7. /\ DOMAIN toBot = 1..n /\ DOMAIN toBot' = 1..(n + 1) /\ Len(toBot') = n + 1
      /\ \A i \in DOMAIN toBot : toBot'[i] = toBot[i]
      /\ toBot'[n + 1] = m
  BY <1>5, <1>6, AddPlaces DEF Adds, OneSession, TypeOK
<1>8. n + 1 \in DOMAIN toBot' /\ IsDone(n + 1)'
  BY <1>5, <1>7 DEF IsDone
<1>9. Collected' = Collected /\ (Unsure => Unsure') /\ Age(f)' = Age(f) /\ (Lists => Lists')
  BY <1>2, <1>8 DEF Collected, Unsure, Unread, Age, Lists
<1>10. Least(f)' <= Least(f)
  BY <1>2, <1>9, LeastKept
<1>11. Odd(s) => Held(f, n + 1)
  BY <1>1, <1>4, <1>6 DEF Told, Listed
<1>12. PICK g : /\ Ages(f, g, s)' /\ EntriesThere(f, g)' /\ AnswersWhole(f, g)'
                /\ g[n + 1] = s
  BY <1>1, <1>3, <1>5, <1>6, <1>9, <1>10, <1>11, TellingMore
<1>13. Listed(f, s)'
  BY <1>4 DEF Listed
<1>14. LastAnswer(g, s)'
  BY <1>7, <1>8, <1>12 DEF LastAnswer
<1>15. Learnt(f, s)'
  BY <1>1, <1>2, <1>7, <1>8, <1>9 DEF Told, Learnt, IsNews
<1> QED
  BY <1>12, <1>13, <1>14, <1>15 DEF Told, FollowsFile

(* The bot reads a message. *)
LEMMA FirstMessage ==
  ASSUME OneSession, OneSession', Len(WatcherList) = 1, WatcherList[1].activated,
         NEW type, Receives(type)
  PROVE  /\ toBot # <<>> /\ toBot' = Tail(toBot) /\ 1 \in DOMAIN toBot
         /\ Head(toBot) = toBot[1] /\ toBot[1].type = type /\ link = "online"
         /\ Target(Head(toBot).path) = {1} /\ Watchers = {1} /\ Path \in Paths
         /\ \A i \in DOMAIN toBot' : i + 1 \in DOMAIN toBot /\ toBot'[i] = toBot[i + 1]
         /\ \A i \in DOMAIN toBot : i = 1 \/ (i - 1 \in DOMAIN toBot' /\ toBot'[i - 1] = toBot[i])
<1>1. toBot \in Seq(Message) /\ toBot # <<>> /\ toBot' = Tail(toBot)
  BY DEF OneSession, TypeOK, Receives
<1>2. PICK n \in Nat \ {0} :
        /\ DOMAIN toBot = 1..n /\ DOMAIN toBot' = 1..(n - 1) /\ Head(toBot) = toBot[1]
        /\ \A k \in DOMAIN toBot' : toBot'[k] = toBot[k + 1]
  BY <1>1, TakePlaces
<1>3. 1 \in DOMAIN toBot /\ Head(toBot).path = Path
  BY <1>2 DEF OneSession, Alone
<1>4. \A i \in DOMAIN toBot' : i + 1 \in DOMAIN toBot /\ toBot'[i] = toBot[i + 1]
  BY <1>2
<1>5. \A i \in DOMAIN toBot : i = 1 \/ (i - 1 \in DOMAIN toBot' /\ toBot'[i - 1] = toBot[i])
  BY <1>2
<1>6. Target(Head(toBot).path) = {1} /\ Watchers = {1} /\ Path \in Paths
  BY <1>3, OnlyTarget
<1> QED
  BY <1>1, <1>2, <1>3, <1>4, <1>5, <1>6 DEF Receives

LEMMA EntryRead ==
  ASSUME OneSession, OneSession', Len(WatcherList) = 1, WatcherList[1].activated,
         NEW f \in Files, FollowsFile(f), FileList
  PROVE  FollowsFile(f)'
<1>1. PICK s \in Nat, h \in [DOMAIN toBot -> Nat] : Told(f, h, s)
  BY Telling
<1>2. /\ UNCHANGED <<dir, arrivals, unseen, link, subscribing, posts, initial, toServer, listing>>
      /\ Receives("file_list")
  BY DEF FileList, server, history
<1>3. /\ Counted(f) \in Nat /\ Age(f) \in Int /\ Age(f)' \in Int
      /\ Least(f) \in Int /\ Least(f)' \in Int
      /\ 2 * Counted(f) - 1 <= Least(f)
  BY LeastTyped
<1>4. /\ toBot # <<>> /\ toBot' = Tail(toBot) /\ 1 \in DOMAIN toBot
      /\ Head(toBot) = toBot[1] /\ IsEntry(1) /\ link = "online"
      /\ Target(Head(toBot).path) = {1} /\ 1 \in Watchers
      /\ \A i \in DOMAIN toBot : i = 1 \/ (i - 1 \in DOMAIN toBot' /\ toBot'[i - 1] = toBot[i])
  BY <1>2, FirstMessage DEF IsEntry
<1>5. /\ subscribing => files'[1] = files[1] \cup {toBot[1].file} /\ newFiles' = newFiles
      /\ ~subscribing => newFiles'[1] = newFiles[1] \cup {toBot[1].file} /\ files' = files
  BY <1>4 DEF FileList
<1>6. PICK a \in Int, b \in Int, n \in Nat, c \in Nat :
        /\ a = Least(f) /\ b = Least(f)' /\ n = Len(toBot) /\ c = Counted(f) /\ n > 0
  BY <1>3, <1>4 DEF OneSession, TypeOK
<1>7. a <= h[1] /\ h[1] \in Nat /\ (toBot[1].file = f => Odd(h[1]))
  <2>1. Rising(n, h, a, s)
    BY <1>1, <1>6 DEF Told, Ages
  <2>2. a <= h[1] /\ h[1] \in Nat
    BY <1>6, <2>1 DEF Rising
  <2> QED
    BY <1>1, <1>4, <2>2 DEF Told, EntriesThere
<1>8. (Unsure => Unsure') /\ (~subscribing => ~Unsure) /\ Counted(f)' = c
  <2>1. Unread => Unread'
    BY <1>2, <1>4 DEF Unread, Lists, IsDone, IsEntry
  <2> QED
    BY <1>2, <1>4, <1>6, <2>1 DEF Unsure, Counted, Present
<1>9. b <= h[1]
  <2>1. CASE toBot[1].file # f
    <3>1. (f \in files'[1] <=> f \in files[1]) /\ (f \in newFiles'[1] <=> f \in newFiles[1])
      BY <1>5, <2>1
    <3>2. b <= a
      BY <1>6, <1>8, <3>1 DEF Least
    <3> QED
      BY <1>6, <1>7, <3>2
  <2>2. CASE toBot[1].file = f /\ (subscribing \/ f \in files[1])
    <3>1. f \in files'[1]
      BY <1>5, <2>2
    <3>2. b = 2 * c - 1 /\ b <= a
      BY <1>3, <1>6, <1>8, <3>1 DEF Least
    <3> QED
      BY <1>7, <3>2
  <2>3. CASE toBot[1].file = f /\ ~subscribing /\ f \notin files[1]
    <3>1. f \notin files'[1] /\ f \in newFiles'[1]
      BY <1>5, <2>3
    <3>2. b = 2 * c + 1
      BY <1>6, <1>8, <3>1 DEF Least
    <3>3. a = 2 * c \/ a = 2 * c + 1
      BY <1>6, <1>8, <2>3 DEF Least
    <3> QED
      BY <1>7, <2>3, <3>2, <3>3 DEF Odd
  <2> QED
    BY <2>1, <2>2, <2>3
<1>10. /\ toBot[1].file = f => f \in Collected'
       /\ f \in Collected => f \in Collected'
  BY <1>2, <1>5 DEF Collected
<1>11. Age(f)' = Age(f)
  BY <1>2 DEF Age
<1>12. PICK g : /\ Ages(f, g, s)' /\ EntriesThere(f, g)' /\ AnswersWhole(f, g)'
                /\ Listed(f, s)' /\ LastAnswer(g, s)'
  <2>1. Least(f)' <= h[1] /\ Age(f) <= Age(f)'
    BY <1>3, <1>6, <1>9, <1>11
  <2> QED
    BY <1>1, <1>2, <1>3, <1>4, <1>10, <2>1, TellingLess
<1>13. Learnt(f, s)'
  <2>1. f \in files[1] => f \in files'[1]
    BY <1>5
  <2>2. \A i \in DOMAIN toBot :
          /\ IsNews(i) => i - 1 \in DOMAIN toBot' /\ IsNews(i - 1)'
          /\ IsDone(i) => i - 1 \in DOMAIN toBot' /\ IsDone(i - 1)'
    BY <1>4 DEF IsNews, IsDone, IsEntry
  <2>3. Learnt(f, s)
    BY <1>1 DEF Told
  <2>4. /\ Lists => Lists'
        /\ (\E i \in DOMAIN toBot : IsNews(i)) => (\E i \in DOMAIN toBot' : IsNews(i)')
        /\ (\E i \in DOMAIN toBot : IsDone(i)) => (\E i \in DOMAIN toBot' : IsDone(i)')
    BY <1>2, <2>2 DEF Lists
  <2> QED
    BY <1>2, <2>1, <2>3, <2>4 DEF Learnt
<1> QED
  BY <1>12, <1>13 DEF Told, FollowsFile

LEMMA DoneRead ==
  ASSUME OneSession, OneSession', Len(WatcherList) = 1, WatcherList[1].activated,
         NEW f \in Files, FollowsFile(f), FileListDone
  PROVE  FollowsFile(f)'
<1>1. PICK s \in Nat, h \in [DOMAIN toBot -> Nat] : Told(f, h, s)
  BY Telling
<1>2. /\ UNCHANGED <<dir, arrivals, unseen, link, subscribing, initial, toServer, listing>>
      /\ Receives("file_list_done")
  BY DEF FileListDone, server
<1>3. /\ Counted(f) \in Nat /\ Age(f) \in Int /\ Age(f)' \in Int
      /\ Least(f) \in Int /\ Least(f)' \in Int
      /\ 2 * Counted(f) - 1 <= Least(f)
  BY LeastTyped
<1>4. /\ toBot # <<>> /\ toBot' = Tail(toBot) /\ 1 \in DOMAIN toBot
      /\ Head(toBot) = toBot[1] /\ IsDone(1) /\ link = "online"
      /\ Target(Head(toBot).path) = {1} /\ 1 \in Watchers /\ Path \in Paths
      /\ \A i \in DOMAIN toBot : i = 1 \/ (i - 1 \in DOMAIN toBot' /\ toBot'[i - 1] = toBot[i])
  BY <1>2, FirstMessage DEF IsDone
<1>5. /\ subscribing => /\ files'[1] = files[1] /\ newFiles'[1] = newFiles[1]
                        /\ posts'[1][f] = posts[1][f]
      /\ ~subscribing =>
           /\ files'[1] = newFiles[1] /\ newFiles'[1] = {}
           /\ \/ posts'[1][f] = posts[1][f]
              \/ f \in Announced(1) /\ posts'[1][f] = posts[1][f] + 1
  BY <1>4 DEF FileListDone
<1>6. PICK a \in Int, b \in Int, n \in Nat, c \in Nat :
        /\ a = Least(f) /\ b = Least(f)' /\ n = Len(toBot) /\ c = Counted(f) /\ n > 0
  BY <1>3, <1>4 DEF OneSession, TypeOK
<1>7. a <= h[1] /\ h[1] \in Nat /\ (Odd(h[1]) => f \in Collected)
  <2>1. Rising(n, h, a, s)
    BY <1>1, <1>6 DEF Told, Ages
  <2>2. a <= h[1] /\ h[1] \in Nat
    BY <1>6, <2>1 DEF Rising
  <2>3. Odd(h[1]) => Held(f, 1)
    BY <1>1, <1>4 DEF Told, AnswersWhole
  <2>4. DOMAIN toBot \subseteq Nat \ {0}
    BY DEF OneSession, TypeOK
  <2>5. Held(f, 1) => f \in Collected
    BY <2>4 DEF Held
  <2> QED
    BY <2>2, <2>3, <2>5
<1>8. /\ ~subscribing => ~Unsure /\ ~Unsure'
      /\ posts'[1][f] = posts[1][f] => Counted(f)' = c
      /\ posts'[1][f] = posts[1][f] + 1 => Counted(f)' = c + 1
  <2>1. posts[1][f] \in Nat /\ Present(f, Path) \in Nat /\ Present(f, Path)' = Present(f, Path)
    BY <1>2, <1>4 DEF OneSession, TypeOK, Present
  <2>2. ~subscribing => ~Unsure /\ ~Unsure'
    BY <1>2, <1>4 DEF Unsure
  <2>3. PICK q \in Nat : c = posts[1][f] + q /\ Counted(f)' = posts'[1][f] + q
    BY <1>6, <2>1 DEF Counted
  <2>4. posts'[1][f] = posts[1][f] => Counted(f)' = c
    BY <2>3
  <2>5. ASSUME posts'[1][f] = posts[1][f] + 1
        PROVE  Counted(f)' = c + 1
    BY <2>1, <2>3, <2>5
  <2> QED
    BY <2>2, <2>4, <2>5
<1>9. b <= h[1]
  <2>1. CASE subscribing
    <3>1. Counted(f)' = c /\ (f \in files'[1] <=> f \in files[1])
          /\ (f \in newFiles'[1] <=> f \in newFiles[1])
      BY <1>5, <1>8, <2>1
    <3>2. CASE f \in newFiles[1] \cup files[1]
      <4>1. b <= a
        BY <1>6, <3>1, <3>2 DEF Least
      <4> QED
        BY <1>6, <1>7, <4>1
    <3>3. CASE f \notin newFiles[1] \cup files[1]
      <4>1. b <= 2 * c
        BY <1>6, <3>1, <3>3 DEF Least
      <4>2. ~Odd(h[1])
        BY <1>7, <2>1, <3>3 DEF Collected
      <4> QED
        BY <1>3, <1>6, <1>7, <4>1, <4>2 DEF Odd
    <3> QED
      BY <3>2, <3>3
  <2>2. CASE ~subscribing /\ f \in newFiles[1] /\ f \in files[1]
    <3>1. Counted(f)' = c /\ f \in files'[1]
      BY <1>5, <1>8, <2>2 DEF Announced
    <3>2. b <= a
      BY <1>6, <2>2, <3>1 DEF Least
    <3> QED
      BY <1>6, <1>7, <3>2
  <2>3. CASE ~subscribing /\ f \in newFiles[1] /\ f \notin files[1]
    <3>1. (Counted(f)' = c \/ Counted(f)' = c + 1) /\ f \in files'[1]
      BY <1>5, <1>8, <2>3
    <3>2. a = 2 * c + 1 /\ b <= 2 * c + 1
      BY <1>6, <2>3, <3>1 DEF Least
    <3> QED
      BY <1>6, <1>7, <3>2
  <2>4. CASE ~subscribing /\ f \notin newFiles[1]
    <3>1. Counted(f)' = c /\ f \notin files'[1] \cup newFiles'[1]
      BY <1>5, <1>8, <2>4 DEF Announced
    <3>2. b = 2 * c
      BY <1>6, <1>8, <2>4, <3>1 DEF Least
    <3>3. ~Odd(h[1])
      BY <1>7, <2>4 DEF Collected
    <3> QED
      BY <1>3, <1>6, <1>7, <3>2, <3>3 DEF Odd
  <2> QED
    BY <2>1, <2>2, <2>3, <2>4
<1>10. Age(f)' = Age(f)
  BY <1>2 DEF Age
<1>11. PICK g : /\ Ages(f, g, s)' /\ EntriesThere(f, g)' /\ AnswersWhole(f, g)'
                /\ Listed(f, s)' /\ LastAnswer(g, s)'
  <2>1. Least(f)' <= h[1] /\ Age(f) <= Age(f)'
    BY <1>3, <1>6, <1>9, <1>10
  <2>2. ~IsEntry(1)
    BY <1>4 DEF IsEntry, IsDone
  <2> QED
    BY <1>1, <1>2, <1>3, <1>4, <2>1, <2>2, TellingLess
<1>12. Learnt(f, s)'
  <2>1. \A i \in DOMAIN toBot \ {1} :
          /\ IsNews(i) => i - 1 \in DOMAIN toBot' /\ IsNews(i - 1)'
          /\ IsDone(i) => i - 1 \in DOMAIN toBot' /\ IsDone(i - 1)'
    BY <1>4 DEF IsNews, IsDone
  <2>2. ~IsNews(1) /\ (Lists => Lists')
    BY <1>2, <1>4 DEF Lists, IsNews, IsDone
  <2>3. Learnt(f, s)
    BY <1>1 DEF Told
  <2>4. (\E i \in DOMAIN toBot : IsNews(i)) => (\E i \in DOMAIN toBot' : IsNews(i)')
    BY <2>1, <2>2
  <2>5. ASSUME Odd(s), listing = Idle
        PROVE  f \in files'[1] \/ \E i \in DOMAIN toBot' : IsDone(i)'
    <3>1. h[1] = s \/ \E j \in DOMAIN toBot : 1 < j /\ IsDone(j)
      BY <1>1, <1>4, <2>5 DEF Told, LastAnswer
    <3>2. h[1] = s => f \in files'[1]
      BY <1>5, <1>7, <2>5 DEF Collected
    <3>3. ASSUME NEW j \in DOMAIN toBot, 1 < j, IsDone(j)
          PROVE  \E i \in DOMAIN toBot' : IsDone(i)'
      <4>1. j # 1
        BY <3>3
      <4> QED
        BY <2>1, <3>3, <4>1
    <3> QED
      BY <3>1, <3>2, <3>3
  <2> QED
    BY <1>2, <2>2, <2>3, <2>4, <2>5 DEF Learnt
<1> QED
  BY <1>11, <1>12 DEF Told, FollowsFile

LEMMA NewsRead ==
  ASSUME OneSession, OneSession', Len(WatcherList) = 1, WatcherList[1].activated,
         NEW f \in Files, FollowsFile(f), DirectoryChanged
  PROVE  FollowsFile(f)'
<1>1. PICK s \in Nat, h \in [DOMAIN toBot -> Nat] : Told(f, h, s)
  BY Telling
<1>2. /\ UNCHANGED <<dir, arrivals, unseen, link, files, newFiles, posts, initial, listing>>
      /\ Receives("directory_changed") /\ ~subscribing'
  BY DEF DirectoryChanged, server, history
<1>3. /\ Counted(f) \in Nat /\ Age(f) \in Int /\ Age(f)' \in Int
      /\ Least(f) \in Int /\ Least(f)' \in Int
  BY LeastTyped
<1>4. /\ toBot # <<>> /\ toBot' = Tail(toBot) /\ 1 \in DOMAIN toBot
      /\ Head(toBot) = toBot[1] /\ IsNews(1) /\ link = "online"
      /\ Target(Head(toBot).path) = {1}
  BY <1>2, FirstMessage DEF IsNews
<1>5. ~IsEntry(1) /\ ~IsDone(1)
  BY <1>4 DEF IsNews, IsEntry, IsDone
<1>6. Lists'
  <2> DEFINE r == [op |-> "list", path |-> Head(toBot).path]
  <2>1. toServer' = Append(toServer, r)
    BY <1>4 DEF DirectoryChanged
  <2>2. toServer \in Seq(Request) /\ r.op = "list"
    BY DEF OneSession, TypeOK
  <2> HIDE DEF r
  <2>3. Len(toServer) + 1 \in DOMAIN toServer' /\ toServer'[Len(toServer) + 1] = r
    BY <2>1, <2>2, AddPlaces
  <2> QED
    BY <2>2, <2>3 DEF Lists
<1>7. subscribing => listing = Idle /\ toServer = <<>> /\ \A i \in DOMAIN toBot : ~IsDone(i)
  <2> SUFFICES ASSUME subscribing
               PROVE  listing = Idle /\ toServer = <<>> /\ \A i \in DOMAIN toBot : ~IsDone(i)
    OBVIOUS
  <2>1. Requested /\ FirstAnswer
    BY <1>4 DEF OneSession, Beginning
  <2>2. listing = Idle /\ toServer = <<>>
    BY <1>4, <2>1 DEF Requested
  <2>3. \A i \in DOMAIN toBot : i = 1 \/ 1 < i
    BY DEF OneSession, TypeOK
  <2>4. \A i \in DOMAIN toBot : IsNews(i)
    BY <1>4, <2>1, <2>3 DEF FirstAnswer
  <2> QED
    BY <2>2, <2>4 DEF IsNews, IsDone
<1>8. ~Unsure
  BY <1>4, <1>7 DEF Unsure, Unread, Lists
<1>9. Least(f)' <= Least(f)
  BY <1>2, <1>8, LeastKept
<1>10. Least(f)' <= h[1] /\ Age(f) <= Age(f)'
  <2>1. PICK a \in Int, b \in Int, n \in Nat :
          a = Least(f) /\ b = Least(f)' /\ n = Len(toBot) /\ n > 0
    BY <1>3, <1>4 DEF OneSession, TypeOK
  <2>2. Rising(n, h, a, s)
    BY <1>1, <2>1 DEF Told, Ages
  <2>3. a <= h[1] /\ h[1] \in Nat
    BY <2>1, <2>2 DEF Rising
  <2>4. Age(f)' = Age(f)
    BY <1>2 DEF Age
  <2> QED
    BY <1>3, <1>9, <2>1, <2>3, <2>4
<1>11. \/ f \in Collected => f \in Collected'
       \/ listing = Idle /\ \A i \in DOMAIN toBot : ~IsDone(i)
  BY <1>2, <1>7 DEF Collected
<1>12. PICK g : /\ Ages(f, g, s)' /\ EntriesThere(f, g)' /\ AnswersWhole(f, g)'
                /\ Listed(f, s)' /\ LastAnswer(g, s)'
  BY <1>1, <1>2, <1>3, <1>4, <1>5, <1>10, <1>11, TellingLess
<1>13. Learnt(f, s)'
  BY <1>6 DEF Learnt
<1> QED
  BY <1>12, <1>13 DEF Told, FollowsFile

(* Before the first reload a single watcher follows every file.              *)
FirstDictionary == reloads = 0 => OneSession /\ \A f \in Files : FollowsFile(f)

LEMMA FollowsAtFirst ==
  ASSUME Len(WatcherList) = 1, TypeOK, Init
  PROVE  FirstDictionary
<1>1. OneSession
  BY DEF Init, OneSession, Alone, Beginning
<1>2. ASSUME NEW f \in Files
      PROVE  FollowsFile(f)
  <2>1. Path \in Paths /\ 1 \in Watchers
    BY PathTyped
  <2>2. /\ arrivals[Path][f] = IF f \in dir[Path] THEN 1 ELSE 0
        /\ posts[1][f] = 0 /\ Present(f, Path) = IF f \in dir[Path] THEN 1 ELSE 0
        /\ f \notin files[1] \cup newFiles[1] /\ Unsure /\ listing = Idle /\ link = "offline"
        /\ toBot = <<>>
    BY <2>1 DEF Init, Present, Unsure
  <2>3. PICK s \in Nat : s = Age(f) /\ Least(f) <= s /\ Least(f) \in Int
    <3>1. Counted(f) = IF f \in dir[Path] THEN 1 ELSE 0
      BY <2>2 DEF Counted
    <3>2. Least(f) = 2 * Counted(f) - 1
      BY <2>2 DEF Least
    <3>3. CASE f \in dir[Path]
      BY <2>2, <3>1, <3>2, <3>3 DEF Age
    <3>4. CASE f \notin dir[Path]
      BY <2>2, <3>1, <3>2, <3>4 DEF Age
    <3> QED
      BY <3>3, <3>4
  <2> DEFINE h == [i \in 1..0 |-> 0]
  <2>4. Ages(f, h, s)
    <3>1. PICK b \in Int : b = Least(f) /\ b <= s
      BY <2>3
    <3>2. Rising(0, h, b, s)
      BY <3>1 DEF Rising
    <3>3. Len(toBot) = 0
      BY <2>2
    <3> HIDE DEF h
    <3> QED
      BY <2>3, <3>1, <3>2, <3>3 DEF Ages
  <2> HIDE DEF h
  <2>5. EntriesThere(f, h) /\ AnswersWhole(f, h) /\ Listed(f, s) /\ LastAnswer(h, s) /\ Learnt(f, s)
    <3>1. DOMAIN toBot = {}
      BY <2>2
    <3> QED
      BY <2>2, <3>1 DEF EntriesThere, AnswersWhole, Listed, LastAnswer, Learnt
  <2> QED
    BY <2>4, <2>5 DEF Told, FollowsFile
<1> QED
  BY <1>1, <1>2 DEF FirstDictionary

LEMMA FollowsOn ==
  ASSUME Len(WatcherList) = 1, WatcherList[1].activated, TypeOK, TypeOK', RealFiles,
         FirstDictionary, [Next]_vars
  PROVE  FirstDictionary'
<1> SUFFICES ASSUME reloads' = 0
             PROVE  OneSession' /\ \A f \in Files : FollowsFile(f)'
  BY DEF FirstDictionary
<1> USE DEF server, channel, bot, budget, history
<1>1. reloads = 0
  <2>1. reloads' = reloads \/ reloads' = reloads + 1
    BY DEF Next, Upload, Remove, Serve, ServeList, ServeSubscribe, ServeUnsubscribe,
         SendEntry, SendDone, Handle, FileList, FileListDone, DirectoryChanged, Connect,
         LoseConnection, Reload, ReloadCrash, vars
  <2> QED
    BY <2>1 DEF TypeOK
<1>2. OneSession /\ OneSession' /\ \A f \in Files : FollowsFile(f)
  BY <1>1, SessionKept DEF FirstDictionary
<1> SUFFICES ASSUME NEW f \in Files
             PROVE  FollowsFile(f)'
  BY <1>2
<1>3. ASSUME NEW p \in Paths, NEW e \in Files, Upload(p, e) \/ Remove(p, e)
      PROVE  FollowsFile(f)'
  BY <1>2, <1>3, FileChanges
<1>4. CASE ServeList
  BY <1>2, <1>4, ListServed
<1>5. CASE ServeSubscribe \/ ServeUnsubscribe
  BY <1>2, <1>5, SubscriptionServed
<1>6. ASSUME NEW e \in Files, SendEntry(e)
      PROVE  FollowsFile(f)'
  BY <1>2, <1>6, EntrySent
<1>7. CASE SendDone
  BY <1>2, <1>7, DoneSent
<1>8. CASE FileList
  BY <1>2, <1>8, EntryRead
<1>9. CASE FileListDone
  BY <1>2, <1>9, DoneRead
<1>10. CASE DirectoryChanged
  BY <1>2, <1>10, NewsRead
<1>11. CASE Connect
  BY <1>2, <1>11, SessionBegins
<1>12. CASE LoseConnection
  BY <1>2, <1>12, SessionEnds
<1>13. ASSUME NEW n \in 0..Len(WatcherList), Reload(n) \/ ReloadCrash
       PROVE  FALSE
  BY <1>1, <1>13 DEF Reload, ReloadCrash
<1>14. CASE UNCHANGED vars
  <2>1. PICK s \in Nat, h \in [DOMAIN toBot -> Nat] : Told(f, h, s)
    BY <1>2, Telling
  <2>2. Told(f, h, s)'
    BY <1>14, <2>1 DEF vars, Told, Ages, Least, Unsure, Unread, Lists, Counted, Present, Age,
         EntriesThere, AnswersWhole, Listed, LastAnswer, Learnt, Held, Before, Collected,
         IsEntry, IsDone, IsNews
  <2> QED
    BY <2>2 DEF FollowsFile
<1> QED
  BY <1>3, <1>4, <1>5, <1>6, <1>7, <1>8, <1>9, <1>10, <1>11, <1>12, <1>13, <1>14
     DEF Next, Serve, Handle

(* What was there at the start came to be there. *)
LEMMA StartsWithFiles ==
  Spec => [](\A p \in Paths, f \in Files : Present(f, p) <= arrivals[p][f])
<1> DEFINE Inv == \A p \in Paths, f \in Files : Present(f, p) <= arrivals[p][f]
<1>1. Init => Inv
  BY DEF Init, Present
<1>2. TypeOK /\ Inv /\ [Next]_vars => Inv'
  <2> SUFFICES ASSUME TypeOK, Inv, [Next]_vars, NEW p \in Paths, NEW f \in Files
               PROVE  (Present(f, p) <= arrivals[p][f])'
    OBVIOUS
  <2>1. /\ initial' = initial
        /\ arrivals' = arrivals \/ \E q \in Paths, e \in Files : Upload(q, e)
    BY DEF Next, Upload, Remove, Serve, ServeList, ServeSubscribe, ServeUnsubscribe,
         SendEntry, SendDone, Handle, FileList, FileListDone, DirectoryChanged, Connect,
         LoseConnection, Reload, ReloadCrash, vars, history
  <2>3. Present(f, p)' = Present(f, p)
    BY <2>1 DEF Present
  <2>4. ASSUME NEW q \in Paths, NEW e \in Files, Upload(q, e)
        PROVE  arrivals'[p][f] \in {arrivals[p][f], arrivals[p][f] + 1}
    BY <2>4 DEF Upload, TypeOK
  <2>2. Present(f, p) \in Nat /\ arrivals[p][f] \in Nat
    BY DEF Present, TypeOK
  <2> QED
    BY <2>1, <2>2, <2>3, <2>4
<1> QED
  BY <1>1, <1>2, TypeCorrect, PTL DEF Spec

(* A single watcher, until the dictionary is reloaded, announces a file no   *)
(* more often than it was uploaded, whatever its name, however many changes, *)
(* and wherever the connection is lost: the server looked at the directory  *)
(* after the upload that is announced, and had looked before it.            *)
THEOREM FirstDictionaryAnnounces ==
  ASSUME Len(WatcherList) = 1
  PROVE  Spec => [](reloads = 0 => AnnouncesOnlyUploads)
<1> DEFINE Present1 == \A p \in Paths, f \in Files : Present(f, p) <= arrivals[p][f]
<1>1. Spec => []Present1
  BY StartsWithFiles
<1>2. ASSUME WatcherList[1].activated
      PROVE  Spec => [](reloads = 0 => AnnouncesOnlyUploads)
  <2>1. Init /\ TypeOK => FirstDictionary
    BY FollowsAtFirst
  <2>2. TypeOK /\ TypeOK' /\ RealFiles /\ FirstDictionary /\ [Next]_vars => FirstDictionary'
    BY <1>2, FollowsOn
  <2>3. FirstDictionary => (reloads = 0 => AnnouncesOnlyUploads)
    <3> SUFFICES ASSUME OneSession, NEW f \in Files, FollowsFile(f)
                 PROVE  posts[1][f] + Present(f, Path) <= arrivals[Path][f]
      BY PathTyped DEF FirstDictionary, AnnouncesOnlyUploads, Path
    <3>1. PICK s \in Nat, h \in [DOMAIN toBot -> Nat] : Told(f, h, s)
      BY Telling
    <3>2. Least(f) <= s /\ s <= Age(f)
      BY <3>1 DEF Told, Ages, Rising
    <3>3. 2 * Counted(f) - 1 <= Least(f) /\ Counted(f) \in Nat /\ Least(f) \in Int /\ Age(f) \in Int
      BY LeastRange
    <3>4. arrivals[Path][f] \in Nat /\ Age(f) <= 2 * arrivals[Path][f]
      BY PathTyped DEF OneSession, TypeOK, Age
    <3>5. Counted(f) <= arrivals[Path][f]
      BY <3>2, <3>3, <3>4
    <3> QED
      BY <3>5 DEF Counted
  <2> QED
    BY <2>1, <2>2, <2>3, TypeCorrect, RealFilesAlways, PTL DEF Spec
<1>3. ASSUME ~WatcherList[1].activated
      PROVE  Spec => [](reloads = 0 => AnnouncesOnlyUploads)
  <2>1. TypeOK /\ OthersStaySilent /\ Present1 => AnnouncesOnlyUploads
    <3> SUFFICES ASSUME TypeOK, OthersStaySilent, Present1, NEW f \in Files
                 PROVE  posts[1][f] + Present(f, Path) <= arrivals[Path][f]
      BY PathTyped DEF AnnouncesOnlyUploads, Path
    <3>1. posts[1][f] = 0
      BY <1>3, PathTyped DEF OthersStaySilent, TypeOK
    <3>2. Present(f, Path) \in Nat /\ Present(f, Path) <= arrivals[Path][f]
      BY PathTyped DEF Present
    <3> QED
      BY <3>1, <3>2
  <2> QED
    BY <1>1, <2>1, TypeCorrect, OnlyTheFirstAnnounces, PTL
<1> QED
  BY <1>2, <1>3

(* A single watcher, until the dictionary is reloaded, knows every file that *)
(* was listed or reported when nothing is under way: a file the answer that  *)
(* was being sent does not name was reported, and is asked for again.       *)
THEOREM FirstDictionaryLearns ==
  ASSUME Len(WatcherList) = 1
  PROVE  Spec => [](reloads = 0 => QuietKnowsAll)
<1>1. ASSUME WatcherList[1].activated
      PROVE  Spec => [](reloads = 0 => QuietKnowsAll)
  <2>1. Init /\ TypeOK => FirstDictionary
    BY FollowsAtFirst
  <2>2. TypeOK /\ TypeOK' /\ RealFiles /\ FirstDictionary /\ [Next]_vars => FirstDictionary'
    BY <1>1, FollowsOn
  <2>3. TypeOK /\ FirstDictionary => (reloads = 0 => QuietKnowsAll)
    <3> SUFFICES ASSUME OneSession, Quiet, NEW f \in Files, FollowsFile(f),
                        f \in dir[Path] \ unseen[Path]
                 PROVE  f \in files[1]
      <4>1. dir[Path] \subseteq Files \/ ~TypeOK
        BY PathTyped DEF TypeOK
      <4> QED
        BY <4>1, PathTyped DEF FirstDictionary, QuietKnowsAll, Path
    <3>1. PICK s \in Nat, h \in [DOMAIN toBot -> Nat] : Told(f, h, s)
      BY Telling
    <3>2. toBot = <<>> /\ toServer = <<>> /\ listing = Idle /\ link = "online"
      BY DEF Quiet
    <3>3. DOMAIN toBot = {} /\ DOMAIN toServer = {}
      BY <3>2
    <3> QED
      BY <3>1, <3>2, <3>3 DEF Told, Learnt, Lists
  <2> QED
    BY <2>1, <2>2, <2>3, TypeCorrect, RealFilesAlways, PTL DEF Spec
<1>2. ASSUME ~WatcherList[1].activated
      PROVE  Spec => [](reloads = 0 => QuietKnowsAll)
  <2>1. QuietKnowsAll
    BY <1>2, PathTyped DEF QuietKnowsAll, Active, Target
  <2> QED
    BY <2>1, PTL
<1> QED
  BY <1>1, <1>2
=============================================================================
