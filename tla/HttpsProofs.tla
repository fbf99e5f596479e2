---------------------------- MODULE HttpsProofs -----------------------------
(***************************************************************************)
(* Proofs about the transfer of files, for any number of pieces, threads   *)
(* and requests; about the router of libeve_https, for any names and any   *)
(* depth; and about the router of ws_server, for any spellings of URLs,    *)
(* topics, handlers and threads.                                           *)
(***************************************************************************)
EXTENDS Https, SequenceTheorems, WellFoundedInduction, TLAPS

---------------------------------------------------------------------------
(* FileTransfer: the upload *)

Going == {"ready", "flying", "stray"}

\* Pieces that are in the file on the server, at least in part.
Kept == {stored[i] : i \in DOMAIN stored}

UploadInv ==
    /\ stored \in Seq(1 .. N) /\ cut \subseteq 1 .. N
    /\ post \in Going \cup {"OK", "-1"} /\ sending \in 1 .. N + 2
    /\ \A i, j \in DOMAIN stored : i < j => stored[i] < stored[j]
    /\ \A piece \in 1 .. N : piece < sending => piece \in cut \cup Kept
    /\ post \in Going => sending <= End /\ \A i \in DOMAIN stored : stored[i] < sending
    /\ cut = {} => /\ \A i \in DOMAIN stored : stored[i] = i
                   /\ post \in Going => Len(stored) = sending - 1
                   /\ post = "OK" => Len(stored) = N

\* What holds once the server is through with the piece of a post.
Through(file_, cut_) ==
    /\ file_ \in Seq(1 .. N) /\ cut_ \subseteq 1 .. N
    /\ \A i, j \in DOMAIN file_ : i < j => file_[i] < file_[j]
    /\ \A i \in DOMAIN file_ : file_[i] <= sending /\ file_[i] < sending + 1
    /\ \A piece \in 1 .. N : piece <= sending => piece \in cut_ \cup {file_[i] : i \in DOMAIN file_}
    /\ cut_ = {} => /\ \A i \in DOMAIN file_ : file_[i] = i
                    /\ sending = End => Len(file_) = N
                    /\ sending # End => Len(file_) = sending

\* The piece of a post is later than all that are stored.
LEMMA AppendedPiece ==
    ASSUME UploadInv, post \in Going, sending <= N
    PROVE  LET longer == Append(stored, sending)
           IN  /\ longer \in Seq(1 .. N)
               /\ \A i, j \in DOMAIN longer : i < j => longer[i] < longer[j]
               /\ \A i \in DOMAIN longer : longer[i] <= sending
               /\ {longer[i] : i \in DOMAIN longer} = Kept \cup {sending}
               /\ cut = {} => Len(longer) = sending /\ \A i \in DOMAIN longer : longer[i] = i
<1> DEFINE longer == Append(stored, sending)
           n == Len(stored)
<1>1. N \in Nat /\ sending \in 1 .. N /\ stored \in Seq(1 .. N) /\ n \in Nat
  BY TransferAssumption DEF UploadInv
<1>2. DOMAIN stored = 1 .. n /\ \A i \in 1 .. n : stored[i] \in 1 .. N /\ stored[i] < sending
  BY <1>1 DEF UploadInv
<1>3. longer \in Seq(1 .. N) /\ DOMAIN longer = 1 .. n + 1 /\ Len(longer) = n + 1
  BY <1>1
<1>4. longer[n + 1] = sending /\ \A i \in 1 .. n : longer[i] = stored[i]
  BY <1>1
<1>5. \A i, j \in 1 .. n : i < j => stored[i] < stored[j]
  BY <1>2 DEF UploadInv
<1>6. \A i \in 1 .. n + 1 : i \in 1 .. n \/ i = n + 1
  BY <1>1
<1>7. cut = {} => n = sending - 1 /\ \A i \in 1 .. n : stored[i] = i
  BY <1>2 DEF UploadInv
<1> HIDE DEF longer, n
<1>a. \A i, j \in DOMAIN longer : i < j => longer[i] < longer[j]
  BY <1>1, <1>2, <1>3, <1>4, <1>5, <1>6
<1>b. \A i \in DOMAIN longer : longer[i] <= sending
  BY <1>1, <1>2, <1>3, <1>4, <1>6
<1>c. {longer[i] : i \in DOMAIN longer} = Kept \cup {sending}
  <2>1. n + 1 \in 1 .. n + 1 /\ \A i \in 1 .. n : i \in 1 .. n + 1
    BY <1>1
  <2> QED BY <1>2, <1>3, <1>4, <1>6, <2>1 DEF Kept
<1>d. cut = {} => Len(longer) = sending /\ \A i \in DOMAIN longer : longer[i] = i
  <2>1. cut = {} => n + 1 = sending
    BY <1>1, <1>7
  <2>2. \A i \in DOMAIN longer : (i \in 1 .. n /\ longer[i] = stored[i]) \/ (i = n + 1 /\ longer[i] = sending)
    BY <1>3, <1>4, <1>6
  <2> QED BY <1>3, <1>7, <2>1, <2>2
<1> QED BY <1>3, <1>a, <1>b, <1>c, <1>d DEF longer

LEMMA StoreNext ==
    ASSUME UploadInv, post \in Going, Store
    PROVE  Through(stored', cut')
<1>1. /\ N \in Nat /\ sending \in 1 .. N + 1 /\ stored \in Seq(1 .. N) /\ cut \subseteq 1 .. N
      /\ \A i, j \in DOMAIN stored : i < j => stored[i] < stored[j]
      /\ \A i \in DOMAIN stored : stored[i] \in 1 .. N /\ stored[i] < sending
      /\ \A piece \in 1 .. N : piece < sending => piece \in cut \cup Kept
      /\ cut = {} => Len(stored) = sending - 1 /\ \A i \in DOMAIN stored : stored[i] = i
  BY TransferAssumption DEF UploadInv, End
<1>2. \A piece \in 1 .. N : piece <= sending => piece < sending \/ piece = sending
  BY <1>1
<1>3. CASE sending > N /\ UNCHANGED <<stored, cut>>
  <2>1. sending = End /\ sending - 1 = N /\ \A piece \in 1 .. N : piece < sending
    BY <1>1, <1>3 DEF End
  <2> QED BY <1>1, <1>3, <2>1 DEF Through, Kept
<1>4. CASE sending <= N /\ stored' = Append(stored, sending)
  <2>1. sending \in 1 .. N /\ sending # End
    BY <1>1, <1>4 DEF End
  <2>2. cut' = cut \/ cut' = cut \cup {sending}
    BY <1>4, <2>1, <1>1 DEF Store
  <2>3. /\ stored' \in Seq(1 .. N)
        /\ \A i, j \in DOMAIN stored' : i < j => stored'[i] < stored'[j]
        /\ \A i \in DOMAIN stored' : stored'[i] <= sending
        /\ {stored'[i] : i \in DOMAIN stored'} = Kept \cup {sending}
        /\ cut = {} => Len(stored') = sending /\ \A i \in DOMAIN stored' : stored'[i] = i
    BY <1>4, AppendedPiece
  <2>4. \A i \in DOMAIN stored' : stored'[i] \in 1 .. N
    <3>1. stored' \in Seq(1 .. N) /\ DOMAIN stored' = 1 .. Len(stored')
      BY <2>3
    <3> QED BY <3>1, ElementOfSeq
  <2>5. cut' \subseteq 1 .. N /\ (cut' = {} => cut = {})
    BY <1>1, <2>1, <2>2
  <2>6. \A piece \in 1 .. N : piece <= sending => piece \in cut' \cup (Kept \cup {sending})
    BY <1>1, <1>2, <2>2
  <2>7. \A i \in DOMAIN stored' : stored'[i] < sending + 1
    BY <2>1, <2>3, <2>4
  <2> QED BY <2>1, <2>3, <2>5, <2>6, <2>7 DEF Through
<1>5. CASE sending <= N /\ stored' = stored /\ cut' = cut \cup {sending}
  <2>1. sending \in 1 .. N /\ cut' # {} /\ cut' \subseteq 1 .. N
    BY <1>1, <1>5
  <2>2. \A i \in DOMAIN stored : stored[i] <= sending /\ stored[i] < sending + 1
    BY <1>1
  <2>3. \A piece \in 1 .. N : piece <= sending => piece \in cut' \cup Kept
    BY <1>1, <1>2, <1>5
  <2> QED BY <1>1, <1>5, <2>1, <2>2, <2>3 DEF Through, Kept
<1> QED BY <1>3, <1>4, <1>5 DEF Store

LEMMA UploadStep ==
    ASSUME UploadInv, [Next]_vars
    PROVE  UploadInv'
<1>n. N \in Nat
  BY TransferAssumption
<1>1. CASE UNCHANGED up
  BY <1>1 DEF up, UploadInv, Kept
<1>2. CASE Post
  BY <1>2 DEF Post, UploadInv, Kept, Going
<1>3. CASE Posted
  <2>1. Store /\ post = "flying" /\ sending \in 1 .. N + 1
    BY <1>n, <1>3 DEF Posted, UploadInv, Going, End
  <2>2. Through(stored', cut')
    BY <2>1, StoreNext DEF Going
  <2>a. sending' = sending + 1 /\ sending' \in 1 .. N + 2 /\ sending' - 1 = sending
    BY <1>n, <1>3, <2>1 DEF Posted
  <2>b. (sending = End /\ post' = "OK") \/ (sending # End /\ post' = "ready" /\ sending' <= End)
    BY <1>n, <1>3, <2>1, <2>a DEF Posted, End
  <2>c. \A piece \in 1 .. N : piece < sending' => piece <= sending
    BY <2>1, <2>a
  <2> QED BY <2>2, <2>a, <2>b, <2>c DEF UploadInv, Through, Kept, Going
<1>4. CASE PostFails \/ StrayArrives
  <2>1. post \in Going /\ sending \in 1 .. N + 1
    BY <1>n, <1>4 DEF PostFails, StrayArrives, UploadInv, Going, End
  <2>2. AfterFailure.post = "-1" /\ AfterFailure.sending = sending
    BY DEF AfterFailure
  <2>3. CASE UNCHANGED <<stored, cut, sending>> /\ post' \in {"-1", "stray"}
    BY <2>1, <2>3 DEF UploadInv, Kept, Going
  <2>4. CASE Store /\ post' = "-1" /\ sending' = sending
    <3>1. Through(stored', cut')
      BY <2>1, <2>4, StoreNext
    <3>2. \A piece \in 1 .. N : piece < sending' => piece <= sending
      BY <2>1, <2>4
    <3>3. sending' \in 1 .. N + 2
      BY <1>n, <2>1, <2>4
    <3> QED BY <2>4, <3>1, <3>2, <3>3 DEF UploadInv, Through, Kept, Going
  <2> QED BY <1>4, <2>2, <2>3, <2>4 DEF PostFails, StrayArrives
<1> QED
  BY <1>1, <1>2, <1>3, <1>4
  DEF Next, vars, up, down, Download, Answered, GivenUp, OtherSession, Ask, Lost, Unreadable, Serve,
      Arrive, Find, Lock, Put, Advance, AtEnd, EndSession, UseFreed

LEMMA UploadBegins == Init => UploadInv
  BY TransferAssumption DEF Init, UploadInv, End, Going, Kept

(* No piece of an upload is stored twice or an earlier one later, and what  *)
(* is missing when the client has gone on is only what the server cut but   *)
(* answered; with nothing cut, the file is whole once uploadFile() returned *)
(* OK (curl_client.cpp:207-279, libeve_https.cpp:453-508).                  *)
THEOREM UploadIsAccountedFor == Spec => []UploadLosesOnlyCut
<1>1. UploadInv => UploadLosesOnlyCut
  BY DEF UploadInv, UploadLosesOnlyCut, Kept
<1> QED BY <1>1, UploadBegins, UploadStep, PTL DEF Spec

---------------------------------------------------------------------------
(* FileTransfer: the download.  The offset the session will have when the  *)
(* thread that holds its mutex is done bounds every piece that was sent.   *)

DownTyped ==
    /\ offset \in Nat /\ freed \in BOOLEAN /\ looping \in BOOLEAN /\ faults \in BOOLEAN
    /\ holder \in Requests \cup {0} /\ asking \in Requests \cup {0}
    /\ req \in [Requests -> {"new", "sent", "lost", "silent", "find", "found", "locked",
                             "written", "ending", "done"}]
    /\ reply \in [Requests -> 0 .. End] /\ torn \subseteq Requests
    /\ others \in 0 .. MaxOthers /\ calls \in 0 .. MaxCalls /\ file \in Seq(1 .. N)
    /\ status \in {"alive", "undefined"}

Written == {r \in Requests : req[r] = "written"}
Passed == IF Written = {} THEN offset ELSE offset + 1

\* Whoever is between lock() and unlock() holds the mutex, so that one advances
\* the offset at a time; only the request the client waits for is answered.
MutexInv ==
    /\ DownTyped
    /\ \A r \in Requests : req[r] \in {"locked", "written"} => holder = r
    /\ Passed <= N
    /\ \A r \in Requests : reply[r] # None => asking = r

\* No piece is beyond the offset, and the one in an answer is later than all
\* that are in the file.
OrderInv ==
    /\ \A i \in DOMAIN file : file[i] <= Passed
    /\ \A r \in Requests : reply[r] \in 1 .. N =>
          reply[r] <= Passed /\ \A i \in DOMAIN file : file[i] < reply[r]

\* The request the client waits for is the only one a thread works on, but for
\* one that is only to advance the offset; its answer comes at the end.
WaitInv ==
    /\ \A r \in Requests : req[r] \notin {"new", "done", "written"} => r = asking
    /\ asking # 0 =>
          /\ looping
          /\ reply[asking] = None =>
                Undefined \/ req[asking] \in {"sent", "find", "found", "locked", "ending"}
          /\ reply[asking] # None => req[asking] \in {"written", "done"}

PendingPiece == asking # 0 /\ reply[asking] \in 1 .. N

\* The file holds the pieces that were put, but for the one in the answer.
FileInv ==
    /\ \A i \in DOMAIN file : file[i] = i
    /\ PendingPiece => reply[asking] = Passed /\ Len(file) = Passed - 1
    /\ ~PendingPiece => Len(file) = Passed

\* The session ends, and with it the download, when all is sent.
EndInv ==
    /\ \A r \in Requests : req[r] = "ending" => offset = N /\ Written = {}
    /\ freed => offset = N /\ Written = {} /\ Len(file) = N
    /\ \A r \in Requests : reply[r] = End => freed
    /\ ~looping /\ calls > 0 => freed

\* Without other sessions no search is torn, and nothing freed is used.
TornInv ==
    /\ others = 0 =>
          /\ torn = {}
          /\ freed => \A r \in Requests : req[r] \notin {"found", "locked", "written", "ending"}
    /\ Undefined => others > 0

SoundInv == ~faults => WaitInv /\ FileInv /\ EndInv /\ TornInv

LEMMA NumbersTyped ==
    /\ N \in Nat /\ MaxOthers \in Nat /\ MaxCalls \in Nat
    /\ 0 \notin Requests /\ Requests \subseteq Nat
  BY TransferAssumption DEF Requests

LEMMA WrittenKept ==
    ASSUME DownTyped, NEW r \in Requests, NEW from, NEW to, Goto(r, from, to),
           from # "written", to # "written"
    PROVE  Written' = Written
<1>1. req[r] = from /\ req' = [req EXCEPT ![r] = to]
  BY DEF Goto
<1>2. \A q \in Requests : req'[q] = "written" <=> req[q] = "written"
  BY <1>1 DEF DownTyped
<1> QED BY <1>2 DEF Written

\* A step that leaves the offset and the holder of the mutex alone.
LEMMA MutexAside ==
    ASSUME MutexInv, DownTyped', UNCHANGED <<offset, holder>>,
           \A q \in Requests : req'[q] \in {"locked", "written"} <=> req[q] \in {"locked", "written"},
           \A q \in Requests : req'[q] = "written" <=> req[q] = "written",
           \A q \in Requests : reply'[q] # None => asking' = q
    PROVE  MutexInv'
<1>1. Written' = Written
  BY DEF Written
<1>2. Passed' = Passed
  BY <1>1 DEF Passed
<1> QED BY <1>2 DEF MutexInv

LEMMA MutexStep ==
    ASSUME MutexInv, [Next]_vars
    PROVE  MutexInv'
<1> USE NumbersTyped
<1>t. DownTyped
  BY DEF MutexInv
<1>r. \A q \in Requests : reply[q] # None => asking = q
  BY DEF MutexInv
<1>h. \A q \in Requests : req[q] \in {"locked", "written"} => holder = q
  BY DEF MutexInv
<1>0. ASSUME NEW r \in Requests, NEW what \in 0 .. End, Reply(r, what), UNCHANGED asking
      PROVE  /\ reply' \in [Requests -> 0 .. End]
             /\ \A q \in Requests : reply'[q] # None => asking' = q
  <2>1. (IF asking = r THEN what ELSE None) \in 0 .. End
    BY DEF None, End
  <2>2. reply' = [reply EXCEPT ![r] = IF asking = r THEN what ELSE None]
    BY <1>0 DEF Reply
  <2>3. reply' \in [Requests -> 0 .. End]
    BY <1>t, <2>1, <2>2 DEF DownTyped
  <2> QED BY <1>t, <1>r, <1>0, <2>2, <2>3 DEF DownTyped
<1>1. CASE UNCHANGED <<down, status>>
  BY <1>1 DEF down, MutexInv, DownTyped, Passed, Written
<1>2. CASE Download
  <2>1. DownTyped'
    BY <1>t, <1>2 DEF Download, DownTyped
  <2> QED BY <1>2, <1>r, <2>1, MutexAside DEF Download
<1>3. CASE OtherSession
  <2>0. others' \in 0 .. MaxOthers /\ torn' \subseteq Requests
    <3>1. others < MaxOthers /\ others' = others + 1 /\ torn' = torn \cup Tears
      BY <1>3 DEF OtherSession
    <3>2. others \in 0 .. MaxOthers /\ torn \subseteq Requests /\ Tears \subseteq Requests
      BY <1>t DEF DownTyped, Tears
    <3> QED BY <3>1, <3>2
  <2>1. DownTyped'
    BY <1>t, <1>3, <2>0 DEF OtherSession, DownTyped
  <2> QED BY <1>3, <1>r, <2>1, MutexAside DEF OtherSession
<1>4. CASE GivenUp
  <2>1. reply' \in [Requests -> 0 .. End] /\ \A q \in Requests : reply'[q] = None
    BY <1>4, <1>t, <1>r DEF GivenUp, DownTyped, None, End
  <2>2. DownTyped'
    BY <1>t, <1>4, <2>1 DEF GivenUp, DownTyped
  <2> QED BY <1>4, <2>1, <2>2, MutexAside DEF GivenUp
<1>5. CASE Answered
  <2>1. file' \in Seq(1 .. N)
    <3>1. reply[asking] # End => reply[asking] \in 1 .. N
      BY <1>5, <1>t DEF Answered, DownTyped, None, End
    <3>2. \A p \in 1 .. N : Append(file, p) \in Seq(1 .. N)
      BY <1>t DEF DownTyped
    <3>3. file' = file \/ (reply[asking] \in 1 .. N /\ file' = Append(file, reply[asking]))
      BY <1>5, <3>1 DEF Answered, Keep
    <3> QED BY <1>t, <3>2, <3>3 DEF DownTyped
  <2>2. reply' \in [Requests -> 0 .. End] /\ \A q \in Requests : reply'[q] = None
    BY <1>5, <1>t, <1>r DEF Answered, DownTyped, None, End
  <2>3. looping' \in BOOLEAN /\ faults' \in BOOLEAN /\ asking' = 0
        /\ UNCHANGED <<offset, freed, holder, req, torn, others, calls, status>>
    BY <1>5, <1>t DEF Answered, Keep, DownTyped
  <2>4. DownTyped'
    BY <1>t, <2>1, <2>2, <2>3 DEF DownTyped
  <2> QED BY <2>2, <2>3, <2>4, MutexAside
<1>6. ASSUME NEW r \in Requests, Ask(r) PROVE MutexInv'
  <2>1. DownTyped' /\ UNCHANGED <<offset, holder, reply>> /\ asking = 0
        /\ \A q \in Requests : req'[q] = req[q] \/ (req[q] = "new" /\ req'[q] = "sent")
    BY <1>t, <1>6 DEF Ask, Goto, DownTyped
  <2> QED BY <1>r, <2>1, MutexAside
<1>7. ASSUME NEW r \in Requests, Lost(r) PROVE MutexInv'
  <2>1. DownTyped' /\ UNCHANGED <<offset, holder, reply, asking>>
        /\ \A q \in Requests : req'[q] = req[q] \/ (req[q] = "sent" /\ req'[q] = "lost")
    BY <1>t, <1>7 DEF Lost, Goto, DownTyped
  <2> QED BY <1>r, <2>1, MutexAside
<1>8. ASSUME NEW r \in Requests, Arrive(r) PROVE MutexInv'
  <2>1. DownTyped' /\ UNCHANGED <<offset, holder, reply, asking>>
        /\ \A q \in Requests : req'[q] = req[q] \/ (req[q] = "sent" /\ req'[q] = "find")
    BY <1>t, <1>8 DEF Arrive, Goto, DownTyped
  <2> QED BY <1>r, <2>1, MutexAside
<1>9. ASSUME NEW r \in Requests, Find(r) PROVE MutexInv'
  <2>1. /\ UNCHANGED <<offset, holder, freed, reply, asking, looping, others, calls, file>>
        /\ torn' = torn \ {r} /\ faults' \in BOOLEAN /\ status' \in {"alive", "undefined"}
        /\ \/ req' = [req EXCEPT ![r] = "found"]
           \/ req' = [req EXCEPT ![r] = "silent"]
        /\ req[r] = "find"
    BY <1>t, <1>9 DEF Find, Goto, DownTyped
  <2>2. DownTyped' /\ \A q \in Requests : req'[q] = req[q]
                                          \/ (req[q] = "find" /\ req'[q] \in {"found", "silent"})
    BY <1>t, <2>1 DEF DownTyped
  <2> QED BY <1>r, <2>1, <2>2, MutexAside
<1>10. ASSUME NEW r \in Requests, UseFreed(r) PROVE MutexInv'
  <2>1. DownTyped' /\ UNCHANGED <<offset, holder, reply, asking, req>>
    BY <1>t, <1>10 DEF UseFreed, down, DownTyped
  <2> QED BY <1>r, <2>1, MutexAside
<1>11. ASSUME NEW r \in Requests, EndSession(r) PROVE MutexInv'
  <2>1. /\ UNCHANGED <<offset, holder, others, asking, calls, looping, file, faults, status>>
        /\ freed' = TRUE /\ torn' = torn \cup Tears /\ Reply(r, End)
        /\ req' = [req EXCEPT ![r] = "done"] /\ req[r] = "ending"
    BY <1>11 DEF EndSession, Goto
  <2>2. End \in 0 .. End
    BY DEF End
  <2>3. reply' \in [Requests -> 0 .. End] /\ \A q \in Requests : reply'[q] # None => asking' = q
    BY <1>0, <2>1, <2>2
  <2>4. DownTyped' /\ \A q \in Requests : req'[q] = req[q] \/ (req[q] = "ending" /\ req'[q] = "done")
    BY <1>t, <2>1, <2>3 DEF DownTyped, Tears
  <2> QED BY <2>1, <2>3, <2>4, MutexAside
<1>12. ASSUME NEW r \in Requests, Lock(r) PROVE MutexInv'
  <2>1. /\ UNCHANGED <<offset, freed, reply, torn, others, asking, calls, looping, file, faults, status>>
        /\ holder = 0 /\ holder' = r /\ req' = [req EXCEPT ![r] = "locked"] /\ req[r] = "found"
    BY <1>12 DEF Lock, Goto, MutexFree
  <2>2. DownTyped'
    BY <1>t, <2>1 DEF DownTyped
  <2>3. \A q \in Requests : req[q] \notin {"locked", "written"}
    BY <1>h, <2>1
  <2>4. /\ \A q \in Requests : req'[q] \in {"locked", "written"} => holder' = q
        /\ \A q \in Requests : req'[q] = "written" <=> req[q] = "written"
    BY <1>t, <2>1, <2>3 DEF DownTyped
  <2> QED BY <1>r, <2>1, <2>2, <2>4 DEF MutexInv, Passed, Written
<1>13. ASSUME NEW r \in Requests, Unreadable(r) \/ AtEnd(r) PROVE MutexInv'
  <2>1. /\ UNCHANGED <<offset, freed, reply, torn, others, asking, calls, looping, file, status>>
        /\ holder' = 0 /\ faults' \in BOOLEAN /\ req[r] = "locked"
        /\ req' = [req EXCEPT ![r] = "silent"] \/ req' = [req EXCEPT ![r] = "ending"]
    BY <1>t, <1>13 DEF Unreadable, AtEnd, Goto, Unlocked, DownTyped
  <2>2. DownTyped'
    BY <1>t, <2>1 DEF DownTyped
  <2>3. \A q \in Requests : q # r => req[q] \notin {"locked", "written"}
    BY <1>h, <2>1
  <2>4. /\ \A q \in Requests : req'[q] \notin {"locked", "written"}
        /\ \A q \in Requests : req'[q] = "written" <=> req[q] = "written"
    BY <1>t, <2>1, <2>3 DEF DownTyped
  <2> QED BY <1>r, <2>1, <2>2, <2>4 DEF MutexInv, Passed, Written
<1>14. ASSUME NEW r \in Requests, Put(r) PROVE MutexInv'
  <2>1. /\ UNCHANGED <<offset, freed, holder, torn, others, asking, calls, looping, file, faults, status>>
        /\ offset < N /\ Reply(r, offset + 1)
        /\ req' = [req EXCEPT ![r] = "written"] /\ req[r] = "locked"
    BY <1>14 DEF Put, Goto, MorePieces
  <2>2. offset + 1 \in 0 .. End
    BY <1>t, <2>1 DEF DownTyped, End
  <2>3. reply' \in [Requests -> 0 .. End] /\ \A q \in Requests : reply'[q] # None => asking' = q
    BY <1>0, <2>1, <2>2
  <2>4. DownTyped' /\ \A q \in Requests : req'[q] = IF q = r THEN "written" ELSE req[q]
    BY <1>t, <2>1, <2>3 DEF DownTyped
  <2>5. Passed' <= N
    BY <1>t, <2>1 DEF Passed, DownTyped
  <2>6. \A q \in Requests : req'[q] \in {"locked", "written"} => holder' = q
    BY <1>h, <2>1, <2>4
  <2> QED BY <2>3, <2>4, <2>5, <2>6 DEF MutexInv
<1>15. ASSUME NEW r \in Requests, Advance(r) PROVE MutexInv'
  <2>1. /\ UNCHANGED <<freed, reply, torn, others, asking, calls, looping, file, faults, status>>
        /\ offset' = offset + 1 /\ holder' = 0
        /\ req' = [req EXCEPT ![r] = "done"] /\ req[r] = "written"
    BY <1>15 DEF Advance, Goto, Unlocked
  <2>2. DownTyped' /\ \A q \in Requests : req'[q] = IF q = r THEN "done" ELSE req[q]
    BY <1>t, <2>1 DEF DownTyped
  <2>3. \A q \in Requests : req'[q] \notin {"locked", "written"}
    BY <1>h, <2>1, <2>2
  <2>4. Passed = offset + 1 /\ Passed' = offset'
    BY <2>1, <2>3 DEF Passed, Written
  <2> QED BY <1>r, <2>1, <2>2, <2>3, <2>4 DEF MutexInv
<1>16. CASE Post \/ Posted \/ PostFails \/ StrayArrives
  BY <1>1, <1>16 DEF Post, Posted, PostFails, StrayArrives
<1> QED
  BY <1>1, <1>2, <1>3, <1>4, <1>5, <1>6, <1>7, <1>8, <1>9, <1>10, <1>11, <1>12, <1>13, <1>14,
     <1>15, <1>16
  DEF Next, Serve, vars

LEMMA OrderStep ==
    ASSUME MutexInv, OrderInv, PiecesOnceInOrder, [Next]_vars
    PROVE  OrderInv' /\ PiecesOnceInOrder'
<1> USE NumbersTyped DEF OrderInv, PiecesOnceInOrder, Goto, None, End
<1>t. DownTyped
  BY DEF MutexInv
<1>1. ASSUME UNCHANGED file, Passed' >= Passed,
             \A r \in Requests : reply'[r] \in 1 .. N => reply'[r] = reply[r]
      PROVE  OrderInv' /\ PiecesOnceInOrder'
  <2>1. Passed \in Nat /\ Passed' \in Nat
    BY <1>t, MutexStep DEF MutexInv, DownTyped, Passed
  <2> QED BY <1>1, <1>t, <2>1 DEF DownTyped
<1>2. CASE UNCHANGED down
  BY <1>2 DEF down, Passed, Written
<1>3. CASE Download \/ GivenUp \/ OtherSession
  <2>1. UNCHANGED <<offset, req, file>>
        /\ \A r \in Requests : reply'[r] \in 1 .. N => reply'[r] = reply[r]
    BY <1>3, <1>t DEF Download, GivenUp, OtherSession, DownTyped
  <2> QED BY <2>1 DEF Passed, Written
<1>4. CASE Answered
  <2>1. UNCHANGED <<offset, req>> /\ reply' = [reply EXCEPT ![asking] = None] /\ asking \in Requests
    BY <1>4, <1>t DEF Answered, DownTyped
  <2>2. Passed' = Passed /\ \A r \in Requests : reply'[r] \notin 1 .. N
    BY <2>1, <1>t DEF Passed, Written, MutexInv, DownTyped
  <2>3. CASE reply[asking] = End
    BY <1>4, <2>2, <2>3 DEF Answered
  <2>4. CASE UNCHANGED file
    BY <2>2, <2>4
  <2>5. CASE reply[asking] # End /\ file' = Append(file, reply[asking])
    <3> DEFINE piece == reply[asking]
               n == Len(file) + 1
    <3>1. piece \in 1 .. N /\ file' = Append(file, piece)
      BY <1>4, <1>t, <2>1, <2>5 DEF Answered, DownTyped
    <3>2. /\ n \in Nat /\ DOMAIN file = 1 .. n - 1 /\ DOMAIN file' = 1 .. n /\ file'[n] = piece
          /\ \A i \in DOMAIN file : file'[i] = file[i] /\ file[i] \in 1 .. N
      BY <1>t, <3>1 DEF DownTyped
    <3>3. piece <= Passed /\ \A i \in DOMAIN file : file[i] < piece
      BY <2>1, <3>1
    <3> HIDE DEF piece, n
    <3>4. \A i \in DOMAIN file' : file'[i] <= Passed
      BY <3>2, <3>3
    <3>5. \A i, j \in DOMAIN file' : i < j => file'[i] < file'[j]
      <4> TAKE i, j \in DOMAIN file'
      <4> HAVE i < j
      <4>1. i \in DOMAIN file /\ (j = n \/ j \in DOMAIN file)
        BY <3>2
      <4> QED BY <3>2, <3>3, <4>1
    <3> QED BY <2>2, <3>4, <3>5
  <2> QED BY <1>4, <2>3, <2>4, <2>5 DEF Answered, Keep
<1>5. ASSUME NEW r \in Requests, Ask(r) \/ Lost(r) \/ Arrive(r) \/ Find(r) \/ UseFreed(r) \/ EndSession(r)
                                 \/ Lock(r) \/ Unreadable(r) \/ AtEnd(r)
      PROVE  OrderInv' /\ PiecesOnceInOrder'
  <2>1. UNCHANGED <<offset, file>> /\ Written' = Written
    BY <1>5, <1>t DEF Ask, Lost, Arrive, Find, UseFreed, EndSession, Lock, Unreadable, AtEnd, down, Written,
                      DownTyped
  <2>2. \A q \in Requests : reply'[q] \in 1 .. N => reply'[q] = reply[q]
    BY <1>5, <1>t DEF Ask, Lost, Arrive, Find, UseFreed, EndSession, Lock, Unreadable, AtEnd, down, Reply,
                      DownTyped
  <2> QED BY <2>1, <2>2 DEF Passed
<1>6. ASSUME NEW r \in Requests, Put(r) PROVE OrderInv' /\ PiecesOnceInOrder'
  <2>1. Written = {} /\ Written' = {r} /\ UNCHANGED <<offset, file>>
    BY <1>6, <1>t DEF Put, Written, MutexInv, DownTyped
  <2>2. Passed = offset /\ Passed' = offset + 1 /\ offset \in Nat /\ file \in Seq(1 .. N)
    BY <2>1, <1>t DEF Passed, DownTyped
  <2>3. \A q \in Requests : reply'[q] = reply[q] \/ reply'[q] \in {None, offset + 1}
    BY <1>6, <1>t DEF Put, Reply, DownTyped
  <2>4. \A i \in DOMAIN file : file[i] \in Nat /\ file[i] <= offset
    BY <2>2
  <2> QED BY <2>1, <2>2, <2>3, <2>4
<1>7. ASSUME NEW r \in Requests, Advance(r) PROVE OrderInv' /\ PiecesOnceInOrder'
  <2>1. Written = {r} /\ Written' = {} /\ offset' = offset + 1 /\ UNCHANGED <<reply, file>>
    BY <1>7, <1>t DEF Advance, Written, MutexInv, DownTyped
  <2> QED BY <2>1 DEF Passed
<1> QED
  BY <1>2, <1>3, <1>4, <1>5, <1>6, <1>7
  DEF Next, Serve, vars, Post, Posted, PostFails, StrayArrives, down

LEMMA DownloadBegins == Init => MutexInv /\ OrderInv /\ PiecesOnceInOrder
<1> SUFFICES ASSUME Init PROVE MutexInv /\ OrderInv /\ PiecesOnceInOrder
  OBVIOUS
<1>1. file = <<>> /\ DOMAIN file = {} /\ file \in Seq(1 .. N) /\ Written = {} /\ offset = 0
  BY DEF Init, Written
<1>2. DownTyped
  <2>1. reply \in [Requests -> 0 .. End]
    BY NumbersTyped DEF Init, None, End
  <2>2. req \in [Requests -> {"new", "sent", "lost", "silent", "find", "found", "locked",
                              "written", "ending", "done"}]
    BY DEF Init
  <2>3. /\ offset = 0 /\ freed = FALSE /\ holder = 0 /\ torn = {} /\ others = 0 /\ asking = 0
        /\ calls = 0 /\ looping = FALSE /\ faults = FALSE /\ status = "alive"
    BY DEF Init
  <2>4. offset \in Nat /\ others \in 0 .. MaxOthers /\ calls \in 0 .. MaxCalls
    BY <2>3, NumbersTyped
  <2>6. freed \in BOOLEAN /\ looping \in BOOLEAN /\ faults \in BOOLEAN /\ status \in {"alive", "undefined"}
    BY ONLY <2>3
  <2>5. holder \in Requests \cup {0} /\ asking \in Requests \cup {0} /\ torn \subseteq Requests
    BY ONLY <2>3
  <2> QED BY ONLY <1>1, <2>1, <2>2, <2>4, <2>5, <2>6 DEF DownTyped
<1> QED BY <1>1, <1>2, NumbersTyped DEF Init, MutexInv, OrderInv, PiecesOnceInOrder, Passed, None

(* Every variable of FileTransfer keeps its type. *)
THEOREM TransferTypeCorrect == Spec => []TypeOK
<1>1. MutexInv /\ UploadInv => TypeOK
  BY DEF MutexInv, DownTyped, UploadInv, Going, TypeOK
<1>2. Init => UploadInv
  BY UploadBegins
<1> QED BY <1>1, <1>2, DownloadBegins, MutexStep, UploadStep, PTL DEF Spec

(* A download never appends a piece twice nor an earlier one later, though  *)
(* each piece is answered before the offset is advanced past it             *)
(* (libeve_https.cpp:409-450) and requests are lost and given up.           *)
THEOREM PiecesStayInOrder == Spec => []PiecesOnceInOrder
  BY DownloadBegins, MutexStep, OrderStep, PTL DEF Spec

---------------------------------------------------------------------------
LEMMA WaitStep ==
    ASSUME MutexInv, WaitInv, status = "alive", ~faults', Next
    PROVE  WaitInv'
<1> USE NumbersTyped DEF MutexInv, DownTyped, Goto, None, End, Undefined
<1>1. CASE UNCHANGED <<down, status>>
  BY <1>1 DEF WaitInv, down
<1>2. CASE Download \/ OtherSession
  BY <1>2 DEF WaitInv, Download, OtherSession
<1>3. CASE Answered
  <2>1. asking' = 0 /\ UNCHANGED req /\ req[asking] \in {"written", "done"}
    BY <1>3 DEF WaitInv, Answered
  <2> QED BY <2>1 DEF WaitInv
<1>4. CASE GivenUp \/ \E r \in Requests : Lost(r) \/ Unreadable(r)
  BY <1>4 DEF GivenUp, Lost, Unreadable
<1>5. ASSUME NEW r \in Requests, Ask(r) PROVE WaitInv'
  BY <1>5 DEF WaitInv, Ask
<1>6. ASSUME NEW r \in Requests, Arrive(r) \/ Find(r) \/ Lock(r) \/ AtEnd(r) PROVE WaitInv'
  <2>1. /\ r = asking /\ reply[asking] = None
        /\ UNCHANGED <<asking, reply, looping>>
        /\ \/ status' = "undefined"
           \/ req'[r] \in {"find", "found", "locked", "ending"}
        /\ \A q \in Requests : q # r => req'[q] = req[q]
    BY <1>6 DEF WaitInv, Arrive, Find, Lock, AtEnd
  <2> QED BY <2>1 DEF WaitInv
<1>7. ASSUME NEW r \in Requests, Put(r) \/ EndSession(r) PROVE WaitInv'
  <2>1. /\ r = asking /\ UNCHANGED <<asking, looping>>
        /\ req'[r] \in {"written", "done"} /\ \A q \in Requests : q # r => req'[q] = req[q]
    BY <1>7 DEF WaitInv, Put, EndSession
  <2>2. reply'[r] \in {offset + 1, N + 1}
    BY <1>7, <2>1 DEF Put, EndSession, Reply
  <2> QED BY <2>1, <2>2 DEF WaitInv
<1>8. ASSUME NEW r \in Requests, Advance(r) PROVE WaitInv'
  BY <1>8 DEF WaitInv, Advance
<1>9. ASSUME NEW r \in Requests, UseFreed(r) PROVE WaitInv'
  BY <1>9 DEF WaitInv, UseFreed, down
<1> QED
  BY <1>1, <1>2, <1>3, <1>4, <1>5, <1>6, <1>7, <1>8, <1>9
  DEF Next, Serve, Post, Posted, PostFails, StrayArrives

LEMMA FileStep ==
    ASSUME MutexInv, WaitInv, FileInv, EndInv, status = "alive", ~faults', Next
    PROVE  FileInv'
<1> USE NumbersTyped DEF MutexInv, DownTyped, Goto, None, End
<1>p. Passed \in Nat /\ Passed <= N
  BY DEF Passed
<1>1. ASSUME UNCHANGED <<offset, file, asking, reply>>, Written' = Written PROVE FileInv'
  BY <1>1 DEF FileInv, PendingPiece, Passed
<1>2. CASE UNCHANGED down \/ Download \/ OtherSession
  BY <1>1, <1>2 DEF down, Download, OtherSession, Written
<1>3. CASE GivenUp \/ \E r \in Requests : Lost(r) \/ Unreadable(r)
  BY <1>3 DEF GivenUp, Lost, Unreadable
<1>4. CASE Answered
  <2>1. /\ asking \in Requests /\ ~PendingPiece' /\ Passed' = Passed
    BY <1>4 DEF Answered, PendingPiece, Passed, Written
  <2>2. CASE reply[asking] = End
    <3>1. file' = file /\ ~PendingPiece
      BY <1>4, <2>2 DEF Answered, PendingPiece
    <3> QED BY <2>1, <3>1 DEF FileInv
  <2>3. CASE reply[asking] # End
    <3>1. PendingPiece /\ file' = Append(file, reply[asking])
      BY <1>4, <2>1, <2>3 DEF Answered, Keep, PendingPiece
    <3>2. file' = Append(file, Passed) /\ Len(file) = Passed - 1
      BY <3>1 DEF FileInv
    <3>3. /\ Len(file') = Passed
          /\ \A i \in DOMAIN file' : \/ i \in DOMAIN file /\ file'[i] = file[i]
                                     \/ i = Passed /\ file'[i] = Passed
      <4> DEFINE n == Passed
      <4>1. n \in Nat /\ Len(file) = n - 1 /\ file' = Append(file, n) /\ file \in Seq(Nat)
        BY <1>p, <3>2
      <4> HIDE DEF n
      <4>2. /\ Len(file') = n /\ DOMAIN file' = 1 .. n /\ DOMAIN file = 1 .. n - 1 /\ file'[n] = n
            /\ \A i \in 1 .. n - 1 : file'[i] = file[i]
        BY ONLY <4>1
      <4>3. \A i \in 1 .. n : i \in 1 .. n - 1 \/ i = n
        BY ONLY <4>1
      <4> QED BY ONLY <4>2, <4>3 DEF n
    <3> QED BY <2>1, <3>3 DEF FileInv
  <2> QED BY <2>2, <2>3
<1>5. ASSUME NEW r \in Requests, Ask(r) PROVE FileInv'
  <2>1. /\ UNCHANGED <<offset, file, reply>> /\ Written' = Written
        /\ ~PendingPiece /\ reply[r] = None /\ asking' = r
    BY <1>5 DEF Ask, Written, PendingPiece
  <2> QED BY <2>1 DEF FileInv, PendingPiece, Passed
<1>6. ASSUME NEW r \in Requests, Arrive(r) \/ Find(r) \/ Lock(r) \/ AtEnd(r) \/ UseFreed(r) PROVE FileInv'
  <2>1. UNCHANGED <<offset, file, asking, reply>> /\ Written' = Written
    <3>1. CASE Arrive(r)
      BY <3>1, WrittenKept DEF Arrive
    <3>2. CASE Find(r)
      BY <3>2, WrittenKept DEF Find
    <3>3. CASE Lock(r)
      BY <3>3, WrittenKept DEF Lock
    <3>4. CASE AtEnd(r)
      BY <3>4, WrittenKept DEF AtEnd
    <3>5. CASE UseFreed(r)
      BY <3>5 DEF UseFreed, down, Written
    <3> QED BY <1>6, <3>1, <3>2, <3>3, <3>4, <3>5
  <2> QED BY <1>1, <2>1
<1>7. ASSUME NEW r \in Requests, Put(r) PROVE FileInv'
  <2>1. r = asking /\ asking' = r /\ reply[r] = None /\ reply'[r] = offset + 1 /\ offset < N
    BY <1>7 DEF Put, Reply, MorePieces, WaitInv
  <2>2. Written = {} /\ Written' = {r} /\ UNCHANGED <<offset, file>>
    <3>1. req[r] = "locked" /\ req' = [req EXCEPT ![r] = "written"] /\ UNCHANGED <<offset, file>>
      BY <1>7 DEF Put
    <3>2. \A q \in Requests : req[q] # "written" /\ req'[q] = IF q = r THEN "written" ELSE req[q]
      BY <3>1
    <3> QED BY <3>1, <3>2 DEF Written
  <2>3. ~PendingPiece /\ PendingPiece' /\ Passed = offset /\ Passed' = offset + 1
    BY <2>1, <2>2 DEF PendingPiece, Passed
  <2> QED BY <2>1, <2>2, <2>3 DEF FileInv
<1>8. ASSUME NEW r \in Requests, Advance(r) PROVE FileInv'
  <2>1. Written = {r} /\ Written' = {} /\ offset' = offset + 1 /\ UNCHANGED <<file, asking, reply>>
    BY <1>8 DEF Advance, Written
  <2> QED BY <2>1 DEF FileInv, PendingPiece, Passed
<1>9. ASSUME NEW r \in Requests, EndSession(r) PROVE FileInv'
  <2>1. /\ r = asking /\ asking' = r /\ reply[r] = None /\ reply'[r] = N + 1
        /\ UNCHANGED <<offset, file>> /\ Written' = Written
    BY <1>9 DEF EndSession, Reply, WaitInv, Written
  <2> QED BY <2>1 DEF FileInv, PendingPiece, Passed
<1> QED
  BY <1>2, <1>3, <1>4, <1>5, <1>6, <1>7, <1>8, <1>9
  DEF Next, Serve, Post, Posted, PostFails, StrayArrives

LEMMA EndStep ==
    ASSUME MutexInv, WaitInv, FileInv, EndInv, status = "alive", ~faults', Next
    PROVE  EndInv'
<1> USE NumbersTyped DEF MutexInv, DownTyped, Goto, None, End, Undefined
<1>1. CASE UNCHANGED down
  BY <1>1 DEF EndInv, Written, down
<1>2. CASE Download \/ OtherSession
  BY <1>2 DEF EndInv, Written, Download, OtherSession
<1>3. CASE GivenUp \/ \E r \in Requests : Lost(r) \/ Unreadable(r)
  BY <1>3 DEF GivenUp, Lost, Unreadable
<1>4. CASE Answered
  <2>1. /\ UNCHANGED <<offset, req, freed, calls>> /\ Written' = Written /\ asking \in Requests
        /\ reply' = [reply EXCEPT ![asking] = None]
    BY <1>4 DEF Answered, Written
  <2>2. CASE reply[asking] = End
    BY <1>4, <2>1, <2>2 DEF Answered, EndInv
  <2>3. CASE reply[asking] # End
    <3>1. PendingPiece /\ looping' = looping
      BY <1>4, <2>1, <2>3 DEF Answered, PendingPiece
    <3>2. ~freed
      <4>1. Len(file) = Passed - 1 /\ Passed <= N /\ Passed \in Nat
        BY <3>1 DEF FileInv, Passed
      <4> QED BY <4>1 DEF EndInv
    <3> QED BY <2>1, <3>1, <3>2 DEF EndInv
  <2> QED BY <2>2, <2>3
<1>5. ASSUME NEW r \in Requests, Ask(r) \/ Arrive(r) \/ Find(r) \/ UseFreed(r) PROVE EndInv'
  <2>1. UNCHANGED <<offset, file, freed, reply, looping, calls>> /\ Written' = Written
        /\ \A q \in Requests : req'[q] = "ending" => req[q] = "ending"
    <3>1. CASE Ask(r)
      BY <3>1, WrittenKept DEF Ask
    <3>2. CASE Arrive(r)
      BY <3>2, WrittenKept DEF Arrive
    <3>3. CASE Find(r)
      BY <3>3, WrittenKept DEF Find
    <3>4. CASE UseFreed(r)
      BY <3>4 DEF UseFreed, down, Written
    <3> QED BY <1>5, <3>1, <3>2, <3>3, <3>4
  <2> QED BY <2>1 DEF EndInv
<1>6. ASSUME NEW r \in Requests, Lock(r) PROVE EndInv'
  <2>1. UNCHANGED <<offset, file, freed, reply, looping, calls>> /\ Written' = Written
        /\ \A q \in Requests : req'[q] = "ending" => req[q] = "ending"
    BY <1>6 DEF Lock, Written
  <2> QED BY <2>1 DEF EndInv
<1>7. ASSUME NEW r \in Requests, AtEnd(r) PROVE EndInv'
  <2>1. UNCHANGED <<offset, file, freed, reply, looping, calls>> /\ Written' = Written /\ Written = {}
    BY <1>7 DEF AtEnd, Written
  <2>2. offset = N
    BY <1>7, <2>1 DEF AtEnd, MorePieces, Passed
  <2> QED BY <2>1, <2>2 DEF EndInv
<1>8. ASSUME NEW r \in Requests, Put(r) PROVE EndInv'
  <2>1. /\ ~freed /\ offset < N /\ reply'[r] = offset + 1
        /\ UNCHANGED <<offset, freed, looping, calls>>
        /\ \A q \in Requests : q # r => reply'[q] = reply[q]
        /\ \A q \in Requests : req'[q] = "ending" => req[q] = "ending"
    BY <1>8 DEF Put, Reply, MorePieces, WaitInv
  <2> QED BY <2>1 DEF EndInv
<1>9. ASSUME NEW r \in Requests, Advance(r) PROVE EndInv'
  <2>1. /\ ~freed /\ UNCHANGED <<freed, looping, calls, reply>> /\ r \in Written
        /\ \A q \in Requests : req'[q] = "ending" => req[q] = "ending"
    BY <1>9 DEF Advance, Written
  <2> QED BY <2>1 DEF EndInv
<1>10. ASSUME NEW r \in Requests, EndSession(r) PROVE EndInv'
  <2>1. /\ freed' = TRUE /\ UNCHANGED <<offset, file, looping, calls>> /\ offset = N
        /\ Written' = Written /\ Written = {} /\ r = asking /\ reply[r] = None
    BY <1>10 DEF EndSession, Written, EndInv, WaitInv
  <2>2. Len(file) = N
    BY <2>1 DEF FileInv, PendingPiece, Passed
  <2> QED BY <2>1, <2>2 DEF EndInv
<1> QED
  BY <1>1, <1>2, <1>3, <1>4, <1>5, <1>6, <1>7, <1>8, <1>9, <1>10
  DEF Next, Serve, Post, Posted, PostFails, StrayArrives

LEMMA TornStep ==
    ASSUME MutexInv, WaitInv, EndInv, TornInv, status = "alive", ~faults', Next
    PROVE  TornInv'
<1> USE NumbersTyped DEF MutexInv, DownTyped, Goto, Undefined
<1>1. CASE UNCHANGED <<down, status>>
  BY <1>1 DEF TornInv, down
<1>2. CASE Download \/ Answered
  <2>1. UNCHANGED <<others, torn, freed, req, status>>
    BY <1>2 DEF Download, Answered
  <2> QED BY <2>1 DEF TornInv
<1>3. CASE GivenUp \/ \E r \in Requests : Lost(r) \/ Unreadable(r)
  BY <1>3 DEF GivenUp, Lost, Unreadable
<1>4. CASE OtherSession
  BY <1>4 DEF TornInv, OtherSession
<1>5. ASSUME NEW r \in Requests, Ask(r) \/ Arrive(r) PROVE TornInv'
  <2>1. /\ UNCHANGED <<others, torn, freed, status>>
        /\ req' \in {[req EXCEPT ![r] = "sent"], [req EXCEPT ![r] = "find"]}
    BY <1>5 DEF Ask, Arrive
  <2>2. \A q \in Requests : req'[q] = req[q] \/ req'[q] \in {"sent", "find"}
    BY <2>1
  <2> QED BY <2>1, <2>2 DEF TornInv
<1>6. ASSUME NEW r \in Requests, Find(r) PROVE TornInv'
  BY <1>6 DEF TornInv, Find
<1>7. ASSUME NEW r \in Requests, Lock(r) \/ Put(r) \/ Advance(r) \/ AtEnd(r) PROVE TornInv'
  <2>1. ~freed /\ UNCHANGED <<freed, torn, others, status>>
    BY <1>7 DEF Lock, Put, Advance, AtEnd
  <2> QED BY <2>1 DEF TornInv
<1>8. ASSUME NEW r \in Requests, EndSession(r) PROVE TornInv'
  <2>1. /\ torn' = torn \cup Tears /\ UNCHANGED <<others, status>>
        /\ r = asking /\ req[r] = "ending" /\ Written = {}
        /\ req' = [req EXCEPT ![r] = "done"]
    BY <1>8 DEF EndSession, WaitInv, EndInv
  <2>2. \A q \in Requests : q # r => req[q] \in {"new", "done"}
    BY <2>1 DEF WaitInv, Written
  <2>3. Tears = {} /\ \A q \in Requests : req'[q] \in {"new", "done"}
    BY <2>1, <2>2 DEF Tears
  <2> QED BY <2>1, <2>3 DEF TornInv
<1>9. ASSUME NEW r \in Requests, UseFreed(r) PROVE TornInv'
  BY <1>9 DEF TornInv, UseFreed, down
<1> QED
  BY <1>1, <1>2, <1>3, <1>4, <1>5, <1>6, <1>7, <1>8, <1>9
  DEF Next, Serve, Post, Posted, PostFails, StrayArrives

LEMMA SoundStep ==
    ASSUME MutexInv, SoundInv, [Next]_vars
    PROVE  SoundInv'
<1>1. CASE UNCHANGED vars
  BY <1>1 DEF vars, down, SoundInv, WaitInv, FileInv, EndInv, TornInv, PendingPiece, Passed, Written,
                Undefined
<1>2. CASE Next
  <2>1. status = "alive"
    BY <1>2 DEF Next
  <2>2. ~faults' => ~faults
    BY <1>2
    DEF Next, Serve, Download, Answered, Keep, GivenUp, OtherSession, Ask, Lost, Unreadable, Arrive, Find,
        Lock, Put, Advance, AtEnd, EndSession, UseFreed, Post, Posted, PostFails, StrayArrives, down
  <2> QED BY <1>2, <2>1, <2>2, WaitStep, FileStep, EndStep, TornStep DEF SoundInv
<1> QED BY <1>1, <1>2

LEMMA SoundAtFirst == Init => SoundInv
<1> SUFFICES ASSUME Init PROVE SoundInv
  OBVIOUS
<1>1. file = <<>> /\ DOMAIN file = {} /\ Len(file) = 0 /\ Written = {} /\ offset = 0 /\ asking = 0
  BY DEF Init, Written
<1>2. \A r \in Requests : req[r] = "new" /\ reply[r] = 0
  BY DEF Init, None
<1>3. WaitInv /\ TornInv
  BY <1>1, <1>2 DEF Init, WaitInv, TornInv, Undefined
<1>4. FileInv
  BY <1>1 DEF FileInv, PendingPiece, Passed
<1>5. EndInv
  BY <1>1, <1>2, NumbersTyped DEF Init, EndInv, End
<1> QED BY <1>3, <1>4, <1>5 DEF SoundInv

(* As long as no request fails no piece is skipped, and a download that     *)
(* returned is whole (libeve_https.cpp:398-451, curl_client.cpp:298-327);   *)
(* and unless other sessions are added meanwhile no thread uses a session   *)
(* that another one deleted.                                                *)
THEOREM DownloadMissesNothing == Spec => []NothingMissing
<1>1. ASSUME MutexInv, SoundInv PROVE NothingMissing
  <2> SUFFICES ASSUME ~faults PROVE NothingMissing
    BY DEF NothingMissing
  <2>1. WaitInv /\ FileInv /\ EndInv /\ TornInv
    BY <1>1 DEF SoundInv
  <2>2. offset \in Nat /\ Len(file) \in Nat /\ DOMAIN file = 1 .. Len(file)
        /\ Passed \in {offset, offset + 1}
    BY <1>1 DEF MutexInv, DownTyped, Passed
  <2>3. ASSUME NEW piece \in 1 .. offset
        PROVE  (\E i \in DOMAIN file : file[i] = piece) \/ (asking # 0 /\ reply[asking] = piece)
    <3>1. CASE piece <= Len(file)
      <4>1. piece \in DOMAIN file
        BY <2>2, <3>1
      <4> QED BY <2>1, <4>1 DEF FileInv
    <3>2. CASE piece > Len(file)
      <4>1. Len(file) < offset /\ offset <= Passed
        BY <2>2, <3>2
      <4>2. PendingPiece /\ Len(file) = Passed - 1 /\ reply[asking] = Passed
        <5>1. Len(file) # Passed
          <6>1. Len(file) \in Int /\ Passed \in Int /\ offset \in Int
            BY <2>2
          <6>2. \A k, m, n \in Int : k < m /\ m <= n => k # n
            OBVIOUS
          <6> QED BY <4>1, <6>1, <6>2
        <5> QED BY <2>1, <5>1 DEF FileInv
      <4>3. piece = Passed
        BY <2>2, <3>2, <4>1, <4>2
      <4> QED BY <4>2, <4>3 DEF PendingPiece
    <3> QED BY <2>2, <3>1, <3>2
  <2> QED BY <2>1, <2>3 DEF NothingMissing, EndInv, TornInv
<1> QED BY <1>1, DownloadBegins, MutexStep, SoundAtFirst, SoundStep, PTL DEF Spec

---------------------------------------------------------------------------
(* FileTransfer: who waits for whom *)

\* FileInfo::mutex is held only by a thread between lock() and unlock().
HolderWorks == holder # 0 => req[holder] \in {"locked", "written"}

\* The request a client waits for is where its thread has a step to take, or at
\* the mutex, which is free or with a thread that has only to advance the offset.
DownloadGoesOn ==
    ~faults /\ ~Undefined /\ asking # 0 /\ reply[asking] = None =>
        \/ req[asking] \in {"sent", "find", "locked", "ending"}
        \/ req[asking] = "found" /\ (holder = 0 \/ req[holder] = "written")

LEMMA HolderStep ==
    ASSUME DownTyped, HolderWorks, [Next]_vars
    PROVE  HolderWorks'
<1> USE NumbersTyped DEF HolderWorks, Goto
<1>t. holder \in Requests \cup {0} /\ DOMAIN req = Requests
  BY DEF DownTyped
<1>1. CASE UNCHANGED <<holder, req>>
  BY <1>1
<1>2. ASSUME NEW r \in Requests,
             Ask(r) \/ Lost(r) \/ Arrive(r) \/ Find(r) \/ EndSession(r)
      PROVE  HolderWorks'
  <2>1. /\ holder' = holder /\ req[r] \notin {"locked", "written"}
        /\ \A q \in Requests : q # r => req'[q] = req[q]
    BY <1>t, <1>2 DEF Ask, Lost, Arrive, Find, EndSession
  <2> QED BY <1>t, <2>1
<1>3. ASSUME NEW r \in Requests, Lock(r) PROVE HolderWorks'
  BY <1>t, <1>3 DEF Lock
<1>4. ASSUME NEW r \in Requests, Unreadable(r) \/ AtEnd(r) \/ Advance(r) PROVE HolderWorks'
  BY <1>4 DEF Unreadable, AtEnd, Advance, Unlocked
<1>5. ASSUME NEW r \in Requests, Put(r) PROVE HolderWorks'
  <2>1. holder' = holder /\ req' = [req EXCEPT ![r] = "written"]
    BY <1>5 DEF Put
  <2> QED BY <1>t, <2>1
<1>6. ASSUME NEW r \in Requests, UseFreed(r) PROVE UNCHANGED <<holder, req>>
  BY <1>6 DEF UseFreed, down
<1>7. CASE Download \/ Answered \/ GivenUp \/ OtherSession \/ Post \/ Posted \/ PostFails
           \/ StrayArrives \/ UNCHANGED vars
  <2>1. UNCHANGED <<holder, req>>
    BY <1>7 DEF Download, Answered, GivenUp, OtherSession, Post, Posted, PostFails,
                StrayArrives, vars, down
  <2> QED BY <1>1, <2>1
<1> QED BY <1>1, <1>2, <1>3, <1>4, <1>5, <1>6, <1>7 DEF Next, Serve

(* A thread of the server that waits for the mutex of a session waits for   *)
(* one that has a step to take: every way out of putFile(), the failures    *)
(* included, gives the mutex back (libeve_https.cpp:408-450).               *)
THEOREM SessionMutexComesBack == Spec => []HolderWorks
<1>1. Init => HolderWorks
  BY DEF Init, HolderWorks
<1>2. MutexInv /\ HolderWorks /\ [Next]_vars => HolderWorks'
  BY HolderStep DEF MutexInv
<1> QED BY <1>1, <1>2, DownloadBegins, MutexStep, PTL DEF Spec

(* As long as nothing is lost, given up or left unanswered, a client that   *)
(* waits for a piece waits for a thread that goes on, or for one that has   *)
(* only to advance the offset of a piece already answered                   *)
(* (libeve_https.cpp:408-450).                                              *)
THEOREM DownloadIsNeverStuck == Spec => []DownloadGoesOn
<1>1. MutexInv /\ SoundInv /\ HolderWorks => DownloadGoesOn
  <2> SUFFICES ASSUME MutexInv, WaitInv, HolderWorks, ~Undefined, asking # 0, reply[asking] = None
               PROVE  \/ req[asking] \in {"sent", "find", "locked", "ending"}
                      \/ req[asking] = "found" /\ (holder = 0 \/ req[holder] = "written")
    BY DEF SoundInv, DownloadGoesOn
  <2>1. req[asking] \in {"sent", "find", "found", "locked", "ending"}
    BY DEF WaitInv
  <2>2. ASSUME holder # 0, req[holder] = "locked" PROVE req[asking] = "locked"
    BY <2>2, NumbersTyped DEF MutexInv, DownTyped, WaitInv
  <2> QED BY <2>1, <2>2 DEF HolderWorks
<1> QED
  BY <1>1, SessionMutexComesBack, DownloadBegins, MutexStep, SoundAtFirst, SoundStep, PTL DEF Spec

---------------------------------------------------------------------------
(* Numbers *)

LEMMA LeastNumber ==
    ASSUME NEW ns \in SUBSET Nat, ns # {}
    PROVE  \E n \in ns : \A m \in ns : n <= m
<1> DEFINE R == OpToRel(<, Nat)
<1>1. PICK n \in ns : \A m \in ns : ~(<<m, n>> \in R)
  <2> HIDE DEF R
  <2>1. IsWellFoundedOn(R, Nat)
    BY NatLessThanWellFounded DEF R
  <2> QED BY <2>1, WFMin
<1>2. \A m \in ns : m \in Nat /\ n \in Nat /\ ~(m < n)
  BY <1>1 DEF OpToRel
<1> QED BY <1>2

---------------------------------------------------------------------------
(* UriFilter *)

LEMMA PatternsAreSequences ==
    ASSUME NEW p \in Uri!Patterns
    PROVE  /\ p \in Seq(Names \cup {"+", "#"})
           /\ Len(p) \in Nat
  BY DEF Uri!Patterns, Uri!Paths

LEMMA PrefixReflexive ==
    ASSUME NEW p \in Uri!Patterns
    PROVE  Uri!IsPrefix(p, p)
  BY PatternsAreSequences DEF Uri!IsPrefix

LEMMA PrefixTransitive ==
    ASSUME NEW p \in Uri!Patterns, NEW q \in Uri!Patterns, NEW r \in Uri!Patterns,
           Uri!IsPrefix(p, q), Uri!IsPrefix(q, r)
    PROVE  Uri!IsPrefix(p, r)
<1> USE PatternsAreSequences
<1>1. Len(p) \in Nat /\ Len(q) \in Nat /\ Len(r) \in Nat /\ Len(p) <= Len(q) /\ Len(q) <= Len(r)
  BY DEF Uri!IsPrefix
<1>2. ASSUME NEW i \in 1 .. Len(p) PROVE p[i] = r[i]
  <2>1. p[i] = q[i]
    BY <1>1 DEF Uri!IsPrefix
  <2>2. q[i] = r[i]
    BY <1>1 DEF Uri!IsPrefix
  <2> QED BY <2>1, <2>2
<1>3. SubSeq(r, 1, Len(p)) = p
  BY <1>1, <1>2
<1> QED BY <1>1, <1>3 DEF Uri!IsPrefix

UriTyped == /\ DOMAIN uriTree \subseteq Uri!Patterns
            /\ uriTree = [p \in DOMAIN uriTree |-> uriTree[p]]

\* The abstract state.
UriRoutes == [p \in Uri!Subscribed |-> uriTree[p]]

LEMMA UriTypedStep ==
    ASSUME UriTyped, [Uri!Next]_(Uri!vars)
    PROVE  UriTyped'
<1>1. ASSUME NEW p \in Uri!Patterns, NEW h \in UriHandlers, Uri!Subscribe(p, h) PROVE UriTyped'
  BY <1>1 DEF UriTyped, Uri!Subscribe
<1>2. ASSUME NEW p \in Uri!Patterns, Uri!Unsubscribe(p) PROVE UriTyped'
  BY <1>2 DEF UriTyped, Uri!Unsubscribe
<1>3. CASE UNCHANGED Uri!vars
  BY <1>3 DEF UriTyped, Uri!vars
<1> QED BY <1>1, <1>2, <1>3 DEF Uri!Next

LEMMA TableSubscribe ==
    ASSUME UriTyped, NEW p \in Uri!Patterns, NEW h \in UriHandlers, Uri!Subscribe(p, h)
    PROVE  UriRoutes' = [q \in DOMAIN UriRoutes \cup {p} |-> IF q = p THEN h ELSE UriRoutes[q]]
<1>1. /\ DOMAIN uriTree' = DOMAIN uriTree \cup {a \in Uri!Patterns : Uri!IsPrefix(a, p)}
      /\ \A q \in DOMAIN uriTree' : uriTree'[q] = IF q = p THEN h ELSE Uri!Handler(q)
  BY DEF Uri!Subscribe
<1>2. p \in DOMAIN uriTree' /\ h # Uri!None
  BY <1>1, PrefixReflexive, UriAssumption
<1>3. \A q : q # p /\ q \in Uri!Subscribed' => q \in Uri!Subscribed /\ uriTree'[q] = uriTree[q]
  BY <1>1 DEF Uri!Subscribed, Uri!Handler
<1>4. \A q : q # p /\ q \in Uri!Subscribed => q \in Uri!Subscribed' /\ uriTree'[q] = uriTree[q]
  BY <1>1 DEF Uri!Subscribed, Uri!Handler
<1>5. p \in Uri!Subscribed' /\ uriTree'[p] = h
  BY <1>1, <1>2 DEF Uri!Subscribed
<1>6. Uri!Subscribed' = Uri!Subscribed \cup {p}
  BY <1>3, <1>4, <1>5
<1> QED BY <1>3, <1>5, <1>6 DEF UriRoutes

LEMMA TableUnsubscribe ==
    ASSUME UriTyped, NEW p \in Uri!Patterns, Uri!Unsubscribe(p)
    PROVE  Uri!Table!Unsubscribe(p)
<1> DEFINE kept == Uri!Subscribed'
<1>1. /\ DOMAIN uriTree' = DOMAIN uriTree \ Uri!Pruned(p)
      /\ \A q \in DOMAIN uriTree' : uriTree'[q] = IF q = p THEN Uri!None ELSE uriTree[q]
  BY DEF Uri!Unsubscribe
<1>2. kept = (Uri!Subscribed \ Uri!Pruned(p)) \ {p}
  BY <1>1 DEF Uri!Subscribed
<1>3. ASSUME NEW q \in Uri!Subscribed \ (kept \cup {p})
      PROVE  q \in Uri!Patterns /\ Uri!IsStrictPrefix(q, p) /\ ~\E r \in kept : Uri!IsStrictPrefix(q, r)
  <2>1. q \in Uri!Pruned(p) /\ q # p
    BY <1>2
  <2>2. q \in Uri!Patterns /\ Uri!IsPrefix(q, p)
        /\ \A x \in DOMAIN uriTree : Uri!IsPrefix(q, x) => Uri!IsPrefix(x, p)
    BY <2>1 DEF Uri!Pruned, UriTyped
  <2>3. ASSUME NEW r \in kept, Uri!IsPrefix(q, r) PROVE FALSE
    <3>1. r \in DOMAIN uriTree /\ r \notin Uri!Pruned(p)
      BY <1>2 DEF Uri!Subscribed
    <3>2. Uri!IsPrefix(r, p)
      BY <2>2, <2>3, <3>1
    <3>3. PICK x \in DOMAIN uriTree : Uri!IsPrefix(r, x) /\ ~Uri!IsPrefix(x, p)
      BY <3>1, <3>2 DEF Uri!Pruned
    <3>4. Uri!IsPrefix(q, x)
      BY <2>2, <2>3, <3>1, <3>3, PrefixTransitive DEF UriTyped
    <3> QED BY <2>2, <3>3, <3>4
  <2> QED BY <2>1, <2>2, <2>3 DEF Uri!IsStrictPrefix
<1>4. UriRoutes' = [q \in kept |-> UriRoutes[q]]
  BY <1>1, <1>2 DEF UriRoutes, Uri!Subscribed
<1>5. DOMAIN UriRoutes = Uri!Subscribed
  BY DEF UriRoutes
<1>6. kept \in SUBSET (DOMAIN UriRoutes \ {p})
  BY <1>2, <1>5
<1> HIDE DEF kept
<1>7. \A q \in DOMAIN UriRoutes \ (kept \cup {p}) : q \in Uri!Table!Left(p, kept)
  BY <1>3, <1>5 DEF Uri!Table!Left, Uri!IsStrictPrefix, Uri!IsPrefix,
                    Uri!Table!IsStrictPrefix, Uri!Table!IsPrefix
<1> QED BY <1>4, <1>6, <1>7 DEF Uri!Table!Unsubscribe, UriRoutes

(* The tree of CUriFilter implements the table of its subscriptions, for    *)
(* any names and any depth (uri_filter.cpp:51-99).                          *)
THEOREM UriFilterIsTable == Uri!Spec => ImplementsTable
<1>1. Uri!Init => UriTyped /\ Uri!Table!Init
  BY DEF Uri!Init, UriTyped, Uri!Table!Init, Uri!Subscribed
<1>2. ASSUME UriTyped, [Uri!Next]_(Uri!vars)
      PROVE  [Uri!Table!Next]_UriRoutes
  <2>1. ASSUME NEW p \in Uri!Patterns, NEW h \in UriHandlers, Uri!Subscribe(p, h)
        PROVE  Uri!Table!Subscribe(p, h)
    BY <1>2, <2>1, TableSubscribe DEF Uri!Table!Subscribe, UriRoutes
  <2>2. CASE UNCHANGED Uri!vars
    BY <2>2 DEF Uri!vars, UriRoutes, Uri!Subscribed
  <2> QED BY <1>2, <2>1, <2>2, TableUnsubscribe DEF Uri!Next, Uri!Table!Next
<1> QED BY <1>1, <1>2, UriTypedStep, PTL
    DEF Uri!Spec, ImplementsTable, Uri!ImplementsTable, Uri!Table!Spec, UriRoutes

---------------------------------------------------------------------------
(* UriFilter: the search *)

\* Every node but the root has its parents in the tree.
Rooted == \A p \in DOMAIN uriTree : \A a \in Uri!Patterns : Uri!IsPrefix(a, p) => a \in DOMAIN uriTree

LEMMA NodesAreSequences ==
    /\ \A p \in Uri!Patterns : p \in Seq(Names \cup {"+", "#"}) /\ Len(p) \in 1 .. Depth
    /\ \A p \in Uri!Nodes : p \in Seq(Names \cup {"+", "#"}) /\ Len(p) \in Nat
    /\ \A uri \in Uri!Uris : uri \in Seq(Names) /\ Len(uri) \in 1 .. Depth
<1>1. ASSUME NEW sections, NEW p \in Uri!Paths(sections)
      PROVE  p \in Seq(sections) /\ Len(p) \in 1 .. Depth
  <2>1. PICK n \in 1 .. Depth : p \in [1 .. n -> sections]
    BY DEF Uri!Paths
  <2> QED BY <2>1, UriAssumption
<1>2. \A p \in Uri!Patterns : p \in Seq(Names \cup {"+", "#"}) /\ Len(p) \in 1 .. Depth
  BY <1>1 DEF Uri!Patterns
<1>3. \A uri \in Uri!Uris : uri \in Seq(Names) /\ Len(uri) \in 1 .. Depth
  BY <1>1 DEF Uri!Uris
<1>4. \A p \in Uri!Nodes : p \in Seq(Names \cup {"+", "#"}) /\ Len(p) \in Nat
  <2>1. <<>> \in Seq(Names \cup {"+", "#"}) /\ Len(<<>>) = 0
    OBVIOUS
  <2>2. \A n \in 1 .. Depth : n \in Nat
    BY UriAssumption
  <2> QED BY <1>2, <2>1, <2>2 DEF Uri!Nodes
<1> QED BY <1>2, <1>3, <1>4

\* The calls below a node are all an answer depends on.
LEMMA AnswerDepends ==
    ASSUME UriTyped, NEW uri, NEW node \in Uri!Nodes, NEW find, NEW same,
           \A n \in Uri!Nodes : Len(n) = Len(node) + 1 => find[n] = same[n]
    PROVE  Uri!Answer(find, uri, node) = Uri!Answer(same, uri, node)
<1>1. ASSUME NEW s, Append(node, s) \in DOMAIN uriTree
      PROVE  find[Append(node, s)] = same[Append(node, s)]
  <2>1. Append(node, s) \in Uri!Nodes
    BY <1>1 DEF UriTyped, Uri!Nodes
  <2>2. Len(Append(node, s)) = Len(node) + 1
    BY NodesAreSequences
  <2> QED BY <2>1, <2>2
<1> QED BY <1>1 DEF Uri!Answer

\* The search is defined: there is a function that satisfies its equation,
\* found from the longest nodes to the root.
LEMMA SearchEquation ==
    ASSUME UriTyped, NEW uri \in Uri!Uris
    PROVE  Uri!Search(uri) =
             [node \in Uri!Nodes |->
                IF Len(node) < Len(uri) THEN Uri!Answer(Uri!Search(uri), uri, node) ELSE Uri!None]
<1> DEFINE Body(find, node) == IF Len(node) < Len(uri) THEN Uri!Answer(find, uri, node) ELSE Uri!None
           Good(find, k) == /\ find = [n \in Uri!Nodes |-> find[n]]
                            /\ \A n \in Uri!Nodes : Len(uri) - Len(n) <= k => find[n] = Body(find, n)
           bad == {k \in Nat : ~\E find : Good(find, k)}
<1>len. Len(uri) \in Nat /\ \A n \in Uri!Nodes : Len(n) \in Nat
  BY NodesAreSequences
<1>1. ASSUME NEW node \in Uri!Nodes, NEW find, NEW same,
             \A n \in Uri!Nodes : Len(n) = Len(node) + 1 => find[n] = same[n]
      PROVE  Body(find, node) = Body(same, node)
  BY <1>1, AnswerDepends
<1>2. bad = {}
  <2> SUFFICES ASSUME bad # {} PROVE FALSE
    OBVIOUS
  <2>1. PICK k \in bad : \A m \in bad : k <= m
    <3> HIDE DEF Good
    <3> QED BY LeastNumber
  <2>2. ASSUME k = 0 PROVE FALSE
    <3> DEFINE none == [n \in Uri!Nodes |-> Uri!None]
    <3>1. \A n \in Uri!Nodes : Len(uri) - Len(n) <= 0 => ~(Len(n) < Len(uri))
      BY <1>len
    <3>2. Good(none, 0)
      BY <3>1
    <3> HIDE DEF Good
    <3> QED BY <2>1, <2>2, <3>2
  <2>3. ASSUME k # 0 PROVE FALSE
    <3>1. k \in Nat /\ k - 1 \in Nat /\ k - 1 \notin bad
      <4> HIDE DEF Good
      <4> QED BY <2>1, <2>3
    <3>2. PICK find : Good(find, k - 1)
      <4> HIDE DEF Good
      <4> QED BY <3>1
    <3> DEFINE more == [n \in Uri!Nodes |-> IF Len(uri) - Len(n) <= k - 1 THEN find[n] ELSE Body(find, n)]
    <3>3. ASSUME NEW n \in Uri!Nodes, Len(uri) - Len(n) <= k PROVE more[n] = Body(more, n)
      <4>1. more[n] = Body(find, n)
        <5> HIDE DEF Body
        <5> QED BY <3>2
      <4>2. ASSUME NEW m \in Uri!Nodes, Len(m) = Len(n) + 1 PROVE find[m] = more[m]
        <5>1. Len(uri) - Len(m) <= k - 1
          BY <1>len, <3>1, <3>3, <4>2
        <5> QED BY <5>1
      <4> HIDE DEF more, Body
      <4> QED BY <1>1, <4>1, <4>2
    <3>4. Good(more, k)
      <4>1. more = [n \in Uri!Nodes |-> more[n]]
        OBVIOUS
      <4> HIDE DEF more, Body
      <4> QED BY <3>3, <4>1
    <3> HIDE DEF Good, more
    <3> QED BY <2>1, <3>4
  <2> QED BY <2>2, <2>3
<1>3. PICK find : Good(find, Len(uri))
  <2> HIDE DEF Good
  <2> QED BY <1>2, <1>len
<1>4. find = [n \in Uri!Nodes |-> Body(find, n)]
  <2>1. \A n \in Uri!Nodes : Len(uri) - Len(n) <= Len(uri)
    BY <1>len
  <2> HIDE DEF Body
  <2> QED BY <1>3, <2>1
<1> QED BY <1>4 DEF Uri!Search

---------------------------------------------------------------------------
(* What a call of handler() finds *)

\* The sections of a node stand for those of the path so far.
Fits(node, uri) == \A i \in 1 .. Len(node) : node[i] \in {uri[i], "+"}

\* The subscribed patterns that cover the path and continue the node.
Under(node, uri) ==
    {p \in Uri!Subscribed : /\ Uri!Covers(p, uri)
                            /\ Len(node) < Len(p)
                            /\ \A i \in 1 .. Len(node) : p[i] = node[i]}

Continuing(node, uri, x) == {p \in Under(node, uri) : p[Len(node) + 1] = x}

\* The handler is that of the first pattern, or null without one.
FirstAnswers(ps, handler) ==
    IF ps = {} THEN handler = Uri!None
    ELSE \E p \in ps : (\A q \in ps \ {p} : Uri!Before(p, q)) /\ handler = uriTree[p]

LEMMA SubscribedTyped ==
    ASSUME UriTyped
    PROVE  \A p \in Uri!Subscribed : p \in Uri!Patterns /\ p \in DOMAIN uriTree /\ uriTree[p] # Uri!None
  BY DEF UriTyped, Uri!Subscribed

\* The node of the next section of a pattern.
LEMMA NextNode ==
    ASSUME NEW node \in Uri!Nodes, NEW p \in Uri!Patterns, Len(node) < Len(p),
           \A i \in 1 .. Len(node) : p[i] = node[i]
    PROVE  LET child == Append(node, p[Len(node) + 1]) IN
           /\ child \in Uri!Patterns
           /\ Uri!IsPrefix(child, p)
           /\ Len(child) = Len(node) + 1
           /\ \A i \in 1 .. Len(child) : p[i] = child[i]
           /\ Len(p) = Len(child) => p = child
<1> DEFINE d == Len(node)
           child == Append(node, p[d + 1])
           Sections == Names \cup {"+", "#"}
<1>1. node \in Seq(Sections) /\ d \in Nat /\ p \in Seq(Sections) /\ Len(p) \in 1 .. Depth /\ d + 1 \in 1 .. Len(p)
  BY NodesAreSequences, UriAssumption
<1> HIDE DEF Sections
<1>2. child \in Seq(Sections) /\ Len(child) = d + 1
  BY <1>1
<1>3. \A i \in 1 .. d + 1 : p[i] = child[i]
  BY <1>1
<1>4. child \in Uri!Patterns
  <2>1. child \in [1 .. d + 1 -> Sections] /\ d + 1 \in 1 .. Depth
    <3> HIDE DEF child
    <3>1. child \in [1 .. d + 1 -> Sections]
      BY <1>2, LenProperties
    <3>2. d + 1 \in 1 .. Depth
      BY <1>1, UriAssumption
    <3> QED BY <3>1, <3>2
  <2> HIDE DEF child
  <2> QED BY <2>1 DEF Uri!Patterns, Uri!Paths, Sections
<1>5. Uri!IsPrefix(child, p)
  <2>1. SubSeq(p, 1, d + 1) = child
    BY <1>1, <1>2, <1>3
  <2> HIDE DEF child
  <2> QED BY <1>1, <1>2, <2>1 DEF Uri!IsPrefix
<1>6. Len(p) = d + 1 => p = child
  BY <1>1, <1>2, <1>3
<1> QED BY <1>2, <1>3, <1>4, <1>5, <1>6

\* A covering pattern goes on with the section, with "+", or ends with "#".
LEMMA NextSection ==
    ASSUME UriTyped, NEW uri \in Uri!Uris, NEW node \in Uri!Nodes, Len(node) < Len(uri),
           NEW p \in Under(node, uri)
    PROVE  LET x == p[Len(node) + 1] IN
           /\ p \in Uri!Subscribed /\ Uri!Covers(p, uri)
           /\ p \in Uri!Patterns /\ Len(node) < Len(p) /\ \A i \in 1 .. Len(node) : p[i] = node[i]
           /\ x \in {uri[Len(node) + 1], "+", "#"}
           /\ x = "#" => Len(p) = Len(node) + 1
           /\ Len(p) = Len(node) + 1 => x = "#" \/ Len(uri) = Len(node) + 1
<1> DEFINE d == Len(node)
<1>1. p \in Uri!Patterns /\ Uri!Covers(p, uri) /\ d < Len(p) /\ p \in Uri!Subscribed
      /\ \A i \in 1 .. d : p[i] = node[i]
  BY SubscribedTyped DEF Under
<1>2. d \in Nat /\ Len(p) \in Nat /\ Len(uri) \in Nat
  BY <1>1, NodesAreSequences, UriAssumption
<1>3. uri[d + 1] \in Names /\ "#" \notin {uri[d + 1], "+"}
  BY <1>2, NodesAreSequences, UriAssumption
<1>4. CASE Len(p) = d + 1
  BY <1>1, <1>2, <1>4 DEF Uri!Covers
<1>5. CASE Len(p) # d + 1
  <2>1. d + 1 \in 1 .. Len(p) - 1
    BY <1>1, <1>2, <1>5
  <2>2. p[d + 1] \in {uri[d + 1], "+"}
    BY <1>1, <2>1 DEF Uri!Covers
  <2> QED BY <1>1, <1>3, <1>5, <2>2
<1> QED BY <1>4, <1>5

\* A call below: what is found at the node of a section that fits.
LEMMA BelowFindsFirst ==
    ASSUME UriTyped, Rooted, NEW uri \in Uri!Uris, NEW node \in Uri!Nodes, Len(node) < Len(uri),
           Fits(node, uri), NEW find, NEW x \in {uri[Len(node) + 1], "+"},
           \A n \in Uri!Nodes : Len(n) = Len(node) + 1 /\ Len(n) < Len(uri) /\ Fits(n, uri)
                                => FirstAnswers(Under(n, uri), find[n])
    PROVE  LET child == Append(node, x) IN
           FirstAnswers(Continuing(node, uri, x),
                        IF child \notin DOMAIN uriTree THEN Uri!None
                        ELSE IF Len(child) = Len(uri) THEN uriTree[child] ELSE find[child])
<1> DEFINE d == Len(node)
           child == Append(node, x)
<1>1. d \in Nat /\ Len(uri) \in Nat /\ d < Len(uri) /\ "#" \notin {uri[d + 1], "+"}
  BY NodesAreSequences, UriAssumption
<1>2. Len(child) = d + 1 /\ child[d + 1] = x /\ \A i \in 1 .. d : child[i] = node[i]
  BY NodesAreSequences
<1>3. ASSUME NEW p \in Continuing(node, uri, x)
      PROVE  /\ p \in Uri!Subscribed /\ Uri!Covers(p, uri) /\ Uri!IsPrefix(child, p)
             /\ child \in DOMAIN uriTree /\ Len(p) \in Nat /\ d < Len(p)
             /\ \A i \in 1 .. d + 1 : p[i] = child[i]
             /\ Len(p) = d + 1 => p = child /\ Len(uri) = d + 1
  <2>1. p \in Under(node, uri) /\ p[d + 1] = x
    BY DEF Continuing
  <2>2. /\ p \in Uri!Subscribed /\ Uri!Covers(p, uri) /\ p \in Uri!Patterns /\ d < Len(p)
        /\ \A i \in 1 .. d : p[i] = node[i]
        /\ Len(p) = d + 1 => Len(uri) = d + 1
    BY <1>1, <2>1, NextSection
  <2>3. /\ child \in Uri!Patterns /\ Uri!IsPrefix(child, p)
        /\ \A i \in 1 .. d + 1 : p[i] = child[i]
        /\ Len(p) = d + 1 => p = child
    BY <2>1, <2>2, NextNode, <1>2
  <2>4. child \in DOMAIN uriTree
    BY <2>2, <2>3, SubscribedTyped DEF Rooted
  <2>5. Len(p) \in Nat
    BY <2>2, PatternsAreSequences
  <2> QED BY <2>2, <2>3, <2>4, <2>5
<1>4. CASE child \notin DOMAIN uriTree
  <2>1. Continuing(node, uri, x) = {}
    BY <1>3, <1>4
  <2> QED BY <1>4, <2>1 DEF FirstAnswers
<1>5. CASE child \in DOMAIN uriTree /\ Len(child) = Len(uri)
  <2>1. child \in Uri!Patterns
    BY <1>5 DEF UriTyped
  <2>2. Uri!Covers(child, uri)
    <3>1. \A i \in 1 .. d : child[i] \in {uri[i], "+"}
      BY <1>2 DEF Fits
    <3> HIDE DEF child
    <3> QED BY <1>1, <1>2, <1>5, <3>1 DEF Uri!Covers
  <2>3. \A p \in Continuing(node, uri, x) : p = child
    <3>1. ASSUME NEW p \in Continuing(node, uri, x) PROVE Len(p) <= Len(uri)
      BY <1>3 DEF Uri!Covers
    <3> HIDE DEF child
    <3> QED BY <1>1, <1>2, <1>3, <1>5, <3>1
  <2>4. CASE uriTree[child] = Uri!None
    <3>1. Continuing(node, uri, x) = {}
      BY <1>3, <2>3, <2>4, SubscribedTyped
    <3> QED BY <1>5, <2>4, <3>1 DEF FirstAnswers
  <2>5. CASE uriTree[child] # Uri!None
    <3>1. child \in Continuing(node, uri, x)
      <4>1. child \in Uri!Subscribed
        BY <1>5, <2>5 DEF Uri!Subscribed
      <4> HIDE DEF child
      <4> QED BY <1>1, <1>2, <2>2, <4>1 DEF Continuing, Under
    <3> HIDE DEF child
    <3> QED BY <1>5, <2>3, <3>1 DEF FirstAnswers, child
  <2> QED BY <2>4, <2>5
<1>6. CASE child \in DOMAIN uriTree /\ Len(child) # Len(uri)
  <2>1. child \in Uri!Nodes
    BY <1>6 DEF UriTyped, Uri!Nodes
  <2>2. Len(child) < Len(uri)
    BY <1>1, <1>2, <1>6
  <2>3. Fits(child, uri)
    <3> HIDE DEF child
    <3> QED BY <1>1, <1>2 DEF Fits
  <2>4. Under(child, uri) = Continuing(node, uri, x)
    <3>1. ASSUME NEW p \in Continuing(node, uri, x) PROVE p \in Under(child, uri)
      <4> HIDE DEF child
      <4>1. Len(p) # d + 1
        BY <1>2, <1>3, <1>6
      <4>2. d + 1 < Len(p)
        BY <1>1, <1>3, <4>1
      <4> QED BY <1>2, <1>3, <4>2 DEF Under
    <3>2. ASSUME NEW p \in Under(child, uri) PROVE p \in Continuing(node, uri, x)
      <4> HIDE DEF child
      <4>1. /\ p \in Uri!Subscribed /\ Uri!Covers(p, uri) /\ d + 1 < Len(p)
            /\ \A i \in 1 .. d + 1 : p[i] = child[i]
        BY <1>2 DEF Under
      <4>2. Len(p) \in Nat
        BY <4>1, SubscribedTyped, PatternsAreSequences
      <4>3. d < Len(p) /\ p[d + 1] = x /\ \A i \in 1 .. d : p[i] = node[i]
        BY <1>1, <1>2, <4>1, <4>2
      <4> QED BY <4>1, <4>3 DEF Continuing, Under
    <3> QED BY <3>1, <3>2
  <2>5. FirstAnswers(Under(child, uri), find[child])
    <3> HIDE DEF child
    <3> QED BY <1>2, <2>1, <2>2, <2>3
  <2> HIDE DEF child
  <2> QED BY <1>6, <2>4, <2>5 DEF child
<1> HIDE DEF child
<1> QED BY <1>4, <1>5, <1>6 DEF child

\* The last resort: the handler of "#" below the node.
LEMMA RestFindsFirst ==
    ASSUME UriTyped, NEW uri \in Uri!Uris, NEW node \in Uri!Nodes, Len(node) < Len(uri), Fits(node, uri)
    PROVE  FirstAnswers(Continuing(node, uri, "#"), Uri!Handler(Append(node, "#")))
<1> DEFINE d == Len(node)
           rest == Append(node, "#")
<1>1. d \in Nat /\ Len(uri) \in Nat /\ d < Len(uri)
  BY NodesAreSequences, UriAssumption
<1>2. Len(rest) = d + 1 /\ rest[d + 1] = "#" /\ \A i \in 1 .. d : rest[i] = node[i]
  BY NodesAreSequences
<1>3. ASSUME NEW p \in Continuing(node, uri, "#") PROVE p = rest /\ p \in Uri!Subscribed
  <2>1. p \in Under(node, uri) /\ p[d + 1] = "#"
    BY DEF Continuing
  <2>2. /\ p \in Uri!Subscribed /\ p \in Uri!Patterns /\ d < Len(p) /\ Len(p) = d + 1
        /\ \A i \in 1 .. d : p[i] = node[i]
    BY <1>1, <2>1, NextSection
  <2> QED BY <1>2, <2>1, <2>2, NextNode
<1>4. Uri!Covers(rest, uri)
  <2>1. \A i \in 1 .. d : rest[i] \in {uri[i], "+"}
    BY <1>2 DEF Fits
  <2> HIDE DEF rest
  <2> QED BY <1>1, <1>2, <2>1 DEF Uri!Covers
<1>5. rest \in Uri!Subscribed => rest \in Continuing(node, uri, "#")
  <2> HIDE DEF rest
  <2> QED BY <1>1, <1>2, <1>4 DEF Continuing, Under
<1> HIDE DEF rest
<1>6. CASE rest \in Uri!Subscribed
  <2>1. Uri!Handler(rest) = uriTree[rest]
    BY <1>6 DEF Uri!Handler, Uri!Subscribed
  <2> QED BY <1>3, <1>5, <1>6, <2>1 DEF FirstAnswers, rest
<1>7. CASE rest \notin Uri!Subscribed
  <2>1. Uri!Handler(rest) = Uri!None
    BY <1>7 DEF Uri!Handler, Uri!Subscribed
  <2>2. Continuing(node, uri, "#") = {}
    BY <1>3, <1>7
  <2> QED BY <2>1, <2>2 DEF FirstAnswers, rest
<1> QED BY <1>6, <1>7

LEMMA BeforeAtNext ==
    ASSUME NEW node \in Uri!Nodes, NEW p \in Uri!Patterns, NEW q \in Uri!Patterns,
           Len(node) < Len(p), Len(node) < Len(q),
           \A i \in 1 .. Len(node) : p[i] = node[i] /\ q[i] = node[i],
           Uri!Place(p[Len(node) + 1]) < Uri!Place(q[Len(node) + 1])
    PROVE  Uri!Before(p, q)
<1> DEFINE d == Len(node)
<1>1. d \in Nat /\ Len(p) \in Nat /\ Len(q) \in Nat /\ p \in Seq(Names \cup {"+", "#"}) /\ q \in Seq(Names \cup {"+", "#"})
  BY NodesAreSequences, PatternsAreSequences
<1>2. d + 1 \in DOMAIN p \cap DOMAIN q
  BY <1>1
<1>3. SubSeq(p, 1, (d + 1) - 1) = SubSeq(q, 1, (d + 1) - 1)
  BY <1>1
<1> QED BY <1>2, <1>3 DEF Uri!Before

\* One call of handler() finds the first pattern when the calls below do.
LEMMA AnswerFindsFirst ==
    ASSUME UriTyped, Rooted, NEW uri \in Uri!Uris, NEW node \in Uri!Nodes, Len(node) < Len(uri),
           Fits(node, uri), NEW find,
           \A n \in Uri!Nodes : Len(n) = Len(node) + 1 /\ Len(n) < Len(uri) /\ Fits(n, uri)
                                => FirstAnswers(Under(n, uri), find[n])
    PROVE  FirstAnswers(Under(node, uri), Uri!Answer(find, uri, node))
<1> DEFINE d == Len(node)
           s == uri[d + 1]
           U == Under(node, uri)
           G(x) == Continuing(node, uri, x)
           Below(x) == IF Append(node, x) \notin DOMAIN uriTree THEN Uri!None
                       ELSE IF Len(Append(node, x)) = Len(uri) THEN uriTree[Append(node, x)]
                       ELSE find[Append(node, x)]
           rest == Uri!Handler(Append(node, "#"))
<1>1. Uri!Answer(find, uri, node) = Uri!FirstOf(Below(s), Below("+"), rest)
  BY DEF Uri!Answer, Uri!Trials
<1>2. FirstAnswers(G(s), Below(s)) /\ FirstAnswers(G("+"), Below("+"))
  BY BelowFindsFirst
<1>3. FirstAnswers(G("#"), rest)
  BY RestFindsFirst
<1>4. U = G(s) \cup G("+") \cup G("#")
  BY NextSection DEF Continuing
<1>5. s # "#"
  BY NodesAreSequences, UriAssumption
<1>6. ASSUME NEW x, NEW y, NEW p \in G(x), NEW q \in G(y), Uri!Place(x) < Uri!Place(y)
      PROVE  Uri!Before(p, q)
  <2>1. p \in U /\ q \in U /\ p[d + 1] = x /\ q[d + 1] = y
    BY DEF Continuing
  <2>2. /\ p \in Uri!Patterns /\ d < Len(p) /\ \A i \in 1 .. d : p[i] = node[i]
        /\ q \in Uri!Patterns /\ d < Len(q) /\ \A i \in 1 .. d : q[i] = node[i]
    BY <2>1, NextSection
  <2> QED BY <1>6, <2>1, <2>2, BeforeAtNext
<1>7. Uri!Place("+") < Uri!Place("#") /\ Uri!Place(s) < Uri!Place("#")
      /\ (s # "+" => Uri!Place(s) < Uri!Place("+"))
  BY <1>5 DEF Uri!Place
<1>8. \A p \in U : uriTree[p] # Uri!None
  BY SubscribedTyped DEF Under
<1> HIDE DEF s, U, G, Below, rest
<1>9. CASE G(s) # {}
  <2>1. PICK p \in G(s) : (\A q \in G(s) \ {p} : Uri!Before(p, q)) /\ Below(s) = uriTree[p]
    BY <1>2, <1>9 DEF FirstAnswers
  <2>2. Uri!FirstOf(Below(s), Below("+"), rest) = uriTree[p]
    BY <1>4, <1>8, <2>1 DEF Uri!FirstOf
  <2>3. ASSUME NEW q \in U, q # p PROVE Uri!Before(p, q)
    <3>1. CASE q \in G(s)
      BY <2>1, <2>3, <3>1
    <3>2. CASE q \in G("#")
      BY <1>6, <1>7, <3>2
    <3>3. CASE q \in G("+") /\ s # "+"
      BY <1>6, <1>7, <3>3
    <3> QED BY <1>4, <3>1, <3>2, <3>3
  <2> QED BY <1>1, <1>4, <2>2, <2>3 DEF FirstAnswers, U
<1>10. CASE G(s) = {} /\ G("+") # {}
  <2>1. PICK p \in G("+") : (\A q \in G("+") \ {p} : Uri!Before(p, q)) /\ Below("+") = uriTree[p]
    BY <1>2, <1>10 DEF FirstAnswers
  <2>2. Uri!FirstOf(Below(s), Below("+"), rest) = uriTree[p]
    BY <1>2, <1>4, <1>8, <1>10, <2>1 DEF Uri!FirstOf, FirstAnswers
  <2>3. ASSUME NEW q \in U, q # p PROVE Uri!Before(p, q)
    BY <1>4, <1>6, <1>7, <1>10, <2>1, <2>3
  <2> QED BY <1>1, <1>4, <2>2, <2>3 DEF FirstAnswers, U
<1>11. CASE G(s) = {} /\ G("+") = {}
  <2>1. Uri!FirstOf(Below(s), Below("+"), rest) = rest
    BY <1>2, <1>11 DEF Uri!FirstOf, FirstAnswers
  <2>2. U = G("#")
    BY <1>4, <1>11
  <2> QED BY <1>1, <1>3, <2>1, <2>2 DEF U
<1> QED BY <1>9, <1>10, <1>11

\* From the longest nodes to the root, every call does.
LEMMA SearchesFindFirst ==
    ASSUME UriTyped, Rooted, NEW uri \in Uri!Uris
    PROVE  \A node \in Uri!Nodes : Len(node) < Len(uri) /\ Fits(node, uri)
                                   => FirstAnswers(Under(node, uri), Uri!Search(uri)[node])
<1> DEFINE found == Uri!Search(uri)
           Fails(node) == /\ Len(node) < Len(uri) /\ Fits(node, uri)
                          /\ ~FirstAnswers(Under(node, uri), found[node])
           fails == {k \in Nat : \E node \in Uri!Nodes : k = Len(uri) - Len(node) /\ Fails(node)}
<1>len. Len(uri) \in Nat /\ \A n \in Uri!Nodes : Len(n) \in Nat
  BY NodesAreSequences
<1>1. \A node \in Uri!Nodes : Len(node) < Len(uri) => found[node] = Uri!Answer(found, uri, node)
  <2>1. found = [node \in Uri!Nodes |->
                   IF Len(node) < Len(uri) THEN Uri!Answer(found, uri, node) ELSE Uri!None]
    BY SearchEquation
  <2> HIDE DEF found
  <2> QED BY <2>1
<1>2. fails = {}
  <2> SUFFICES ASSUME fails # {} PROVE FALSE
    OBVIOUS
  <2> HIDE DEF found
  <2>1. PICK k \in fails : \A m \in fails : k <= m
    <3> HIDE DEF Fails
    <3> QED BY LeastNumber
  <2>2. PICK node \in Uri!Nodes : k = Len(uri) - Len(node) /\ Fails(node)
    <3> HIDE DEF Fails
    <3> QED BY <2>1
  <2>3. ASSUME NEW n \in Uri!Nodes, Len(n) = Len(node) + 1, Len(n) < Len(uri), Fits(n, uri)
        PROVE  FirstAnswers(Under(n, uri), found[n])
    <3> SUFFICES ASSUME Fails(n) PROVE FALSE
      BY <2>3
    <3>1. Len(uri) - Len(n) \in Nat /\ Len(uri) - Len(n) < k
      <4>1. Len(node) \in Nat /\ Len(n) \in Nat /\ k = Len(uri) - Len(node)
        BY <1>len, <2>2
      <4> QED BY <1>len, <2>3, <4>1
    <3>2. Len(uri) - Len(n) \in fails
      <4> HIDE DEF Fails
      <4> QED BY <3>1
    <3>3. k \in Nat
      BY <2>1
    <3> HIDE DEF fails
    <3> QED BY <2>1, <3>1, <3>2, <3>3
  <2> QED BY <1>1, <2>2, <2>3, AnswerFindsFirst
<1>3. \A node \in Uri!Nodes : ~Fails(node)
  <2>1. \A node \in Uri!Nodes : Fails(node) => Len(uri) - Len(node) \in Nat
    BY <1>len
  <2> HIDE DEF Fails
  <2> QED BY <1>2, <2>1
<1> QED BY <1>3

LEMMA RootedStep ==
    ASSUME UriTyped, Rooted, [Uri!Next]_(Uri!vars)
    PROVE  Rooted'
<1>1. ASSUME NEW p \in Uri!Patterns, NEW h \in UriHandlers, Uri!Subscribe(p, h) PROVE Rooted'
  <2>1. DOMAIN uriTree' = DOMAIN uriTree \cup {a \in Uri!Patterns : Uri!IsPrefix(a, p)}
    BY <1>1 DEF Uri!Subscribe
  <2>2. ASSUME NEW q \in DOMAIN uriTree', NEW a \in Uri!Patterns, Uri!IsPrefix(a, q)
        PROVE  a \in DOMAIN uriTree'
    <3>1. CASE q \in DOMAIN uriTree
      BY <2>1, <2>2, <3>1 DEF Rooted
    <3>2. CASE q \in Uri!Patterns /\ Uri!IsPrefix(q, p)
      <4>1. Uri!IsPrefix(a, p)
        BY <1>1, <2>2, <3>2, PrefixTransitive
      <4> QED BY <2>1, <4>1
    <3> QED BY <2>1, <3>1, <3>2
  <2> QED BY <2>2 DEF Rooted, Uri!IsPrefix
<1>2. ASSUME NEW p \in Uri!Patterns, Uri!Unsubscribe(p) PROVE Rooted'
  <2>1. DOMAIN uriTree' = DOMAIN uriTree \ Uri!Pruned(p)
    BY <1>2 DEF Uri!Unsubscribe
  <2>2. ASSUME NEW q \in DOMAIN uriTree', NEW a \in Uri!Patterns, Uri!IsPrefix(a, q)
        PROVE  a \in DOMAIN uriTree'
    <3>1. q \in DOMAIN uriTree /\ q \in Uri!Patterns /\ q \notin Uri!Pruned(p) /\ a \in DOMAIN uriTree
      BY <2>1, <2>2 DEF Rooted, UriTyped
    <3>2. ASSUME a \in Uri!Pruned(p) PROVE q \in Uri!Pruned(p)
      <4>1. \A x \in DOMAIN uriTree : Uri!IsPrefix(a, x) => Uri!IsPrefix(x, p)
        BY <3>2 DEF Uri!Pruned
      <4>2. Uri!IsPrefix(q, p)
        BY <2>2, <3>1, <4>1
      <4>3. ASSUME NEW x \in DOMAIN uriTree, Uri!IsPrefix(q, x) PROVE Uri!IsPrefix(x, p)
        <5>1. Uri!IsPrefix(a, x)
          BY <2>2, <3>1, <4>3, PrefixTransitive DEF UriTyped
        <5> QED BY <4>1, <5>1
      <4> QED BY <3>1, <4>2, <4>3 DEF Uri!Pruned
    <3> QED BY <2>1, <3>1, <3>2
  <2> QED BY <2>2 DEF Rooted, Uri!IsPrefix
<1>3. CASE UNCHANGED Uri!vars
  BY <1>3 DEF Rooted, Uri!vars
<1> QED BY <1>1, <1>2, <1>3 DEF Uri!Next

(* handler() finds the first of the subscribed patterns that cover the path,*)
(* and null only without one, for any names and any depth                   *)
(* (uri_filter.cpp:101-138).                                                *)
THEOREM UriSearchFindsFirst == Uri!Spec => []SearchFindsFirst
<1>1. Uri!Init => UriTyped /\ Rooted
  BY DEF Uri!Init, UriTyped, Rooted
<1>2. ASSUME UriTyped, Rooted PROVE SearchFindsFirst
  <2>1. ASSUME NEW uri \in Uri!Uris
        PROVE  FirstAnswers({p \in Uri!Subscribed : Uri!Covers(p, uri)}, Uri!Search(uri)[<<>>])
    <3>1. <<>> \in Uri!Nodes /\ Len(<<>>) = 0
      BY DEF Uri!Nodes
    <3>2. Fits(<<>>, uri)
      BY DEF Fits
    <3>3. Len(<<>>) < Len(uri)
      BY <3>1, NodesAreSequences
    <3>4. Under(<<>>, uri) = {p \in Uri!Subscribed : Uri!Covers(p, uri)}
      <4>1. \A p \in Uri!Subscribed : Len(p) > 0
        BY <1>2, SubscribedTyped, NodesAreSequences
      <4> QED BY <3>1, <4>1 DEF Under
    <3> QED BY <1>2, <3>1, <3>2, <3>3, <3>4, SearchesFindFirst
  <2> QED BY <2>1 DEF SearchFindsFirst, Uri!SearchFindsFirst, FirstAnswers
<1> QED BY <1>1, <1>2, UriTypedStep, RootedStep, PTL DEF Uri!Spec

---------------------------------------------------------------------------
(* UrlRouting *)

UrlTyped ==
    /\ urlHandlers \in [Spellings -> UrlHandlers \cup {Url!None}]
    /\ urlUrls \subseteq Spellings
    /\ urlPc \in [Threads -> {"idle", "match", "find"}]
    /\ urlTopic \in [Threads -> Topics \cup {Url!None}]
    /\ urlUrl \in [Threads -> Spellings \cup {Url!None}]
    /\ urlTorn \subseteq Threads /\ urlLeft \subseteq Threads

Pending(c) == /\ c.op \in {"subscribe", "unSubscribe"} /\ c.url \in Spellings
              /\ c.op = "subscribe" => c.handler \in UrlHandlers

\* What the map of the URLs will be when the change under way is made.
UrlsAfter == IF urlChange = Url!NoChange THEN urlUrls
             ELSE IF urlChange.op = "unSubscribe" THEN urlUrls \ {urlChange.url}
             ELSE urlUrls \cup {urlChange.url}

Handled == {u \in Spellings : urlHandlers[u] # Url!None}

\* While a change is half made, m_handlers is a step ahead of m_urls.
MapsInv == /\ UrlTyped
           /\ urlChange = Url!NoChange \/ Pending(urlChange)
           /\ Handled = UrlsAfter

\* Who is looking while the handler of its URL goes, is among those left.
LeftInv == /\ \A t \in Threads : urlPc[t] # "idle" => urlTopic[t] \in Topics
           /\ \A t \in Threads : urlPc[t] = "find" => urlUrl[t] \in Spellings
           /\ urlChange # Url!NoChange /\ urlChange.op = "unSubscribe" =>
                 \A t \in Threads : urlPc[t] # "idle" /\ <<urlTopic[t], urlChange.url>> \in Matches
                                    => t \in urlLeft

LEMMA NoChangeKind == Url!NoChange.op = "none" /\ \A c : Pending(c) => c # Url!NoChange
  BY DEF Url!NoChange, Pending

LEMMA FirstMatches ==
    ASSUME NEW us \in SUBSET Spellings, us # {}
    PROVE  Url!First(us) \in us
<1> DEFINE ranks == {Rank[u] : u \in us}
<1>1. ranks \in SUBSET Nat /\ ranks # {}
  BY UrlAssumption
<1>2. PICK n \in ranks : \A m \in ranks : n <= m
  <2> HIDE DEF ranks
  <2> QED BY <1>1, LeastNumber
<1>3. PICK u \in us : Rank[u] = n
  OBVIOUS
<1>4. \A v \in us : Rank[u] <= Rank[v]
  BY <1>2, <1>3
<1> QED BY <1>4 DEF Url!First

LEMMA MapsStep ==
    ASSUME MapsInv, LeftInv, [Url!Next]_(Url!vars)
    PROVE  MapsInv' /\ LeftInv'
<1> USE UrlAssumption DEF Url!callVars, Url!threadVars
<1>t. UrlTyped
  BY DEF MapsInv
<1>n. Url!NoChange.op = "none"
  BY NoChangeKind
<1>1. ASSUME NEW c, Pending(c), Url!Begin(c),
             c.op = "subscribe" => urlLeft' = urlLeft,
             c.op = "unSubscribe" =>
                urlLeft' = urlLeft \cup {t \in Threads : urlPc[t] # "idle" /\ <<urlTopic[t], c.url>> \in Matches}
      PROVE  MapsInv' /\ LeftInv'
  <2>1. /\ urlChange = Url!NoChange /\ urlChange' = c /\ urlChange' # Url!NoChange
        /\ Url!ChangeHandlers(c) /\ UNCHANGED Url!threadVars
    BY <1>1, NoChangeKind DEF Url!Begin, Url!Change, Url!Order
  <2>2. UrlTyped'
    BY <1>1, <1>t, <2>1 DEF UrlTyped, Url!ChangeHandlers, Url!Erased, Url!Inside, Pending
  <2>3. Handled' = UrlsAfter'
    <3>1. urlUrls' = urlUrls /\ Handled = urlUrls
      BY <2>1 DEF MapsInv, UrlsAfter, Url!ChangeHandlers
    <3>2. CASE c.op = "unSubscribe"
      <4>1. urlHandlers' = [urlHandlers EXCEPT ![c.url] = Url!None]
        BY <2>1, <3>2 DEF Url!ChangeHandlers, Url!Erased
      <4>2. Handled' = Handled \ {c.url}
        BY <1>t, <4>1 DEF Handled, UrlTyped
      <4> QED BY <2>1, <3>1, <3>2, <4>2 DEF UrlsAfter
    <3>3. CASE c.op = "subscribe"
      <4>1. urlHandlers' = IF urlHandlers[c.url] = Url!None
                           THEN [urlHandlers EXCEPT ![c.url] = c.handler] ELSE urlHandlers
        BY <2>1, <3>3 DEF Url!ChangeHandlers
      <4>2. c.handler # Url!None /\ c.url \in Spellings
        BY <1>1, <3>3 DEF Pending
      <4>3. Handled' = Handled \cup {c.url}
        BY <1>t, <4>1, <4>2 DEF Handled, UrlTyped
      <4> QED BY <2>1, <3>1, <3>3, <4>3 DEF UrlsAfter
    <3> QED BY <1>1, <3>2, <3>3 DEF Pending
  <2>4. LeftInv'
    BY <1>1, <1>t, <2>1 DEF LeftInv, Pending
  <2> QED BY <1>1, <2>1, <2>2, <2>3, <2>4 DEF MapsInv
<1>2. ASSUME NEW s \in Spellings, NEW h \in UrlHandlers, Url!Subscribe(s, h) PROVE MapsInv' /\ LeftInv'
  <2> DEFINE c == [op |-> "subscribe", url |-> Normal[s], handler |-> h]
  <2>1. Pending(c) /\ Url!Begin(c) /\ c.op = "subscribe" /\ urlLeft' = urlLeft
    BY <1>2 DEF Pending, Url!Subscribe
  <2> HIDE DEF c
  <2> QED BY <1>1, <2>1
<1>3. ASSUME NEW s \in Spellings, Url!UnSubscribe(s) PROVE MapsInv' /\ LeftInv'
  <2> DEFINE c == [op |-> "unSubscribe", url |-> s, handler |-> Url!None]
  <2>1. /\ Pending(c) /\ Url!Begin(c) /\ c.op = "unSubscribe"
        /\ urlLeft' = urlLeft \cup {t \in Threads : urlPc[t] # "idle" /\ <<urlTopic[t], c.url>> \in Matches}
    BY <1>3 DEF Pending, Url!UnSubscribe
  <2> HIDE DEF c
  <2> QED BY <1>1, <2>1
<1>4. CASE Url!EndChange
  <2>1. /\ urlChange # Url!NoChange /\ urlChange' = Url!NoChange /\ Pending(urlChange)
        /\ Url!ChangeUrls(urlChange) /\ UNCHANGED <<Url!threadVars, urlLeft>>
    BY <1>4 DEF Url!EndChange, Url!Change, Url!Order, MapsInv
  <2>2. UrlTyped'
    BY <1>t, <2>1 DEF UrlTyped, Url!ChangeUrls, Url!Inside, Pending
  <2>3. Handled' = UrlsAfter'
    BY <2>1 DEF MapsInv, Handled, UrlsAfter, Url!ChangeUrls
  <2>4. LeftInv'
    BY <2>1 DEF LeftInv
  <2> QED BY <2>1, <2>2, <2>3, <2>4 DEF MapsInv
<1>5. ASSUME NEW t \in Threads, NEW p \in Topics, Url!Receive(t, p) PROVE MapsInv' /\ LeftInv'
  <2> USE DEF Url!Receive, Url!Goto
  <2>1. UNCHANGED <<urlHandlers, urlUrls, urlChange>>
    BY <1>5
  <2>2. UrlTyped'
    BY <1>t, <1>5 DEF UrlTyped
  <2>3. LeftInv'
    BY <1>t, <1>5 DEF LeftInv, UrlTyped
  <2> QED BY <2>1, <2>2, <2>3 DEF MapsInv, Handled, UrlsAfter
<1>6. ASSUME NEW t \in Threads, Url!FindUrl(t) PROVE MapsInv' /\ LeftInv'
  <2> USE DEF Url!Goto
  <2>1. UNCHANGED <<urlHandlers, urlUrls, urlChange, urlTopic>> /\ urlTorn' = urlTorn \ {t}
        /\ urlLeft' \in {urlLeft, urlLeft \cup {t}}
    BY <1>6 DEF Url!FindUrl
  <2>2. PICK u \in Spellings \cup {Url!None} :
           /\ urlPc[t] = "match" /\ urlPc' = [urlPc EXCEPT ![t] = IF u = Url!None THEN "idle" ELSE "find"]
           /\ urlUrl' = [urlUrl EXCEPT ![t] = u]
    <3>1. Url!Matching(t) \in SUBSET Spellings
      BY <1>t DEF UrlTyped, Url!Matching
    <3>2. Url!Matching(t) # {} => Url!First(Url!Matching(t)) \in Spellings
      BY <3>1, FirstMatches
    <3> QED BY <1>6, <3>2 DEF Url!FindUrl
  <2>3. UrlTyped'
    BY <1>t, <2>1, <2>2 DEF UrlTyped
  <2>4. LeftInv'
    BY <1>t, <2>1, <2>2 DEF LeftInv, UrlTyped
  <2> QED BY <2>1, <2>3, <2>4 DEF MapsInv, Handled, UrlsAfter
<1>7. ASSUME NEW t \in Threads, Url!FindHandler(t) PROVE MapsInv' /\ LeftInv'
  <2> USE DEF Url!FindHandler, Url!Goto
  <2>1. UNCHANGED <<urlHandlers, urlUrls, urlChange>>
    BY <1>7
  <2>2. UrlTyped'
    BY <1>t, <1>7 DEF UrlTyped
  <2>3. LeftInv'
    BY <1>t, <1>7 DEF LeftInv, UrlTyped
  <2> QED BY <2>1, <2>2, <2>3 DEF MapsInv, Handled, UrlsAfter
<1>8. ASSUME NEW t \in Threads, Url!ReadTorn(t) PROVE MapsInv' /\ LeftInv'
  BY <1>8 DEF Url!ReadTorn, MapsInv, UrlTyped, Handled, UrlsAfter, LeftInv
<1>9. CASE UNCHANGED Url!vars
  BY <1>9 DEF Url!vars, MapsInv, UrlTyped, Handled, UrlsAfter, LeftInv
<1> QED BY <1>2, <1>3, <1>4, <1>5, <1>6, <1>7, <1>8, <1>9 DEF Url!Next

LEMMA ServedStep ==
    ASSUME MapsInv, LeftInv, Url!FoundIsServed, [Url!Next]_(Url!vars)
    PROVE  Url!FoundIsServed'
<1> USE UrlAssumption DEF Url!callVars, Url!threadVars, Url!Goto
<1>t. UrlTyped
  BY DEF MapsInv
<1>1. ASSUME NEW t \in Threads, Url!FindUrl(t) PROVE Url!FoundIsServed'
  <2>1. /\ UNCHANGED <<urlHandlers, urlTopic>>
        /\ urlLeft \subseteq urlLeft' /\ (t \in urlTorn => t \in urlLeft')
        /\ urlPc[t] = "match" /\ urlPc' = [urlPc EXCEPT ![t] = urlPc'[t]]
        /\ urlUrl' = [urlUrl EXCEPT ![t] = urlUrl'[t]]
    BY <1>1, <1>t DEF Url!FindUrl, UrlTyped
  <2>2. \A s \in Threads : s # t => urlPc'[s] = urlPc[s] /\ urlUrl'[s] = urlUrl[s]
    BY <1>t, <2>1 DEF UrlTyped
  <2>3. ASSUME urlPc'[t] = "find", t \notin urlLeft'
        PROVE  <<urlTopic[t], urlUrl'[t]>> \in Matches /\ urlHandlers[urlUrl'[t]] # Url!None
    <3>1. urlUrl'[t] \in Url!Matching(t)
      <4>1. t \notin urlTorn
        BY <2>1, <2>3
      <4>2. Url!Matching(t) # {} /\ urlUrl'[t] = Url!First(Url!Matching(t))
        BY <1>1, <1>t, <2>3, <4>1 DEF Url!FindUrl, UrlTyped
      <4>3. Url!Matching(t) \in SUBSET Spellings
        BY <1>t DEF UrlTyped, Url!Matching
      <4> QED BY <4>2, <4>3, FirstMatches
    <3>2. urlUrl'[t] \in urlUrls /\ <<urlTopic[t], urlUrl'[t]>> \in Matches
      BY <3>1 DEF Url!Matching
    <3>3. urlUrl'[t] \in UrlsAfter
      BY <2>1, <2>3, <3>2 DEF UrlsAfter, LeftInv
    <3> QED BY <3>2, <3>3 DEF MapsInv, Handled
  <2> QED BY <2>1, <2>2, <2>3 DEF Url!FoundIsServed
<1>2. ASSUME NEW s \in Spellings, NEW h \in UrlHandlers, Url!Subscribe(s, h) PROVE Url!FoundIsServed'
  <2>1. UNCHANGED <<urlPc, urlTopic, urlUrl, urlLeft>>
    BY <1>2 DEF Url!Subscribe, Url!Begin
  <2>2. \A u \in Spellings : urlHandlers[u] # Url!None => urlHandlers'[u] # Url!None
    BY <1>2, <1>t DEF Url!Subscribe, Url!Begin, Url!Change, Url!Order, Url!ChangeHandlers, UrlTyped
  <2> QED BY <2>1, <2>2 DEF Url!FoundIsServed, LeftInv
<1>3. ASSUME NEW s \in Spellings, Url!UnSubscribe(s) PROVE Url!FoundIsServed'
  <2>1. /\ UNCHANGED <<urlPc, urlTopic, urlUrl>>
        /\ urlLeft' = urlLeft \cup {t \in Threads : urlPc[t] # "idle" /\ <<urlTopic[t], s>> \in Matches}
        /\ urlHandlers' = [urlHandlers EXCEPT ![s] = Url!None]
    BY <1>3 DEF Url!UnSubscribe, Url!Begin, Url!Change, Url!Order, Url!ChangeHandlers, Url!Erased
  <2>2. \A u \in Spellings : u # s => urlHandlers'[u] = urlHandlers[u]
    BY <1>t, <2>1 DEF UrlTyped
  <2> QED BY <2>1, <2>2 DEF Url!FoundIsServed, LeftInv
<1>4. CASE Url!EndChange
  BY <1>4 DEF Url!EndChange, Url!Change, Url!Order, Url!ChangeUrls, Url!FoundIsServed
<1>5. ASSUME NEW t \in Threads, (\E p \in Topics : Url!Receive(t, p)) \/ Url!FindHandler(t)
      PROVE  Url!FoundIsServed'
  <2>1. /\ UNCHANGED <<urlHandlers, urlUrl>> /\ urlPc'[t] # "find"
        /\ \A s \in Threads : s # t =>
              urlPc'[s] = urlPc[s] /\ urlTopic'[s] = urlTopic[s] /\ (s \in urlLeft' <=> s \in urlLeft)
    BY <1>5, <1>t DEF Url!Receive, Url!FindHandler, UrlTyped
  <2> QED BY <2>1 DEF Url!FoundIsServed
<1>6. ASSUME NEW t \in Threads, Url!ReadTorn(t) PROVE Url!FoundIsServed'
  BY <1>6 DEF Url!ReadTorn, Url!FoundIsServed
<1>7. CASE UNCHANGED Url!vars
  BY <1>7 DEF Url!vars, Url!FoundIsServed
<1> QED BY <1>1, <1>2, <1>3, <1>4, <1>5, <1>6, <1>7 DEF Url!Next

(* Between two calls the maps of websocket::CServer have the same URLs, and *)
(* a message on its way between them is served unless there is a reason     *)
(* (communication.cpp:25-60 and 211-256).                                   *)
THEOREM UrlMapsServe == Url!Spec => []MapsServe
<1>1. Url!Init => MapsInv /\ LeftInv /\ Url!FoundIsServed
  BY UrlAssumption DEF Url!Init, MapsInv, UrlTyped, Handled, UrlsAfter, LeftInv, Url!FoundIsServed
<1>2. MapsInv /\ Url!FoundIsServed => MapsServe
  BY DEF MapsInv, MapsServe, Url!MapsAgree, Handled, UrlsAfter
<1> QED BY <1>1, <1>2, MapsStep, ServedStep, PTL DEF Url!Spec
=============================================================================
