---------------------------- MODULE FileTransfer ----------------------------
(***************************************************************************)
(* Files in pieces between http::CCurlHttpClient (curl_client.cpp) and the *)
(* handlers of libeve_https (libeve_https.cpp), as in the tests of both.   *)
(*                                                                         *)
(* Download: the server's session (FileInfo) keeps the offset, the client  *)
(* asks for one piece after another and appends it.  Each request has a    *)
(* connection and thus a server thread of its own, which goes on when the  *)
(* client has given up, and may meet the request of a second attempt.      *)
(*                                                                         *)
(*   request:  new -> sent -> find -> found -> locked -> written -> done    *)
(*             locked -> ending -> done; lost, or silent: never answered    *)
(*                                                                         *)
(* Upload: the client posts one piece after another, the server appends    *)
(* and answers whatever it could write.                                    *)
(* A file is the sequence of its pieces 1 .. N; End is the answer "isend". *)
(***************************************************************************)
EXTENDS Integers, Sequences, FiniteSets

CONSTANTS N,            \* how many pieces the files have
          MaxRequests,  \* bound: how many download requests are ever sent
          MaxCalls,     \* bound: how often downloadFile() is called
          MaxOthers     \* bound: how many other sessions are ever added

ASSUME TransferAssumption == {N, MaxRequests, MaxCalls, MaxOthers} \subseteq Nat

VARIABLES offset,     \* FileInfo::offset
          freed,      \* the session was erased and its FileInfo deleted
          holder,     \* the request whose thread holds FileInfo::mutex, or 0
          req,        \* control of each download request and its thread
          reply,      \* the answer on its way to the client: a piece, End or None
          torn,       \* threads whose search m_fileMapping changed under
          others,     \* how many other sessions were added
          asking,     \* the request the client waits for; 0: none
          calls,      \* how often downloadFile() was called
          looping,    \* the client is in downloadFile()
          file,       \* the file downloaded so far
          faults,     \* history: a download request was lost, given up or
                      \* unanswered, or the client could not write a piece
          post,       \* the upload: "ready", "flying", "stray", "OK" or "-1"
          sending,    \* the piece of the current post; N + 1: the end
          stored,     \* the pieces uploaded so far, whole or in part
          cut,        \* history: pieces posted but not stored, or not whole
          status      \* "alive" or "undefined"

down == <<offset, freed, holder, req, reply, torn, others, asking, calls, looping, file, faults>>
up == <<post, sending, stored, cut>>
vars == <<down, up, status>>

Requests == 1 .. MaxRequests
None == 0
End == N + 1

\* addPutfileSession() has been called, and the client has got the context.
Init == /\ offset = 0 /\ freed = FALSE /\ holder = 0
        /\ req = [r \in Requests |-> "new"] /\ reply = [r \in Requests |-> None]
        /\ torn = {} /\ others = 0
        /\ asking = 0 /\ calls = 0 /\ looping = FALSE /\ file = <<>> /\ faults = FALSE
        /\ post = "ready" /\ sending = 1 /\ stored = <<>> /\ cut = {}
        /\ status = "alive"

Goto(r, from, to) == req[r] = from /\ req' = [req EXCEPT ![r] = to]
Tears == {r \in Requests : req[r] = "find"}

---------------------------------------------------------------------------
(* The client: downloadFile(), downloadBase64(), singleDownload() *)

\* The file is opened for appending: a second call continues the first.
Download ==
    /\ ~looping /\ calls < MaxCalls
    /\ calls' = calls + 1 /\ looping' = TRUE
    /\ UNCHANGED <<offset, freed, holder, req, reply, torn, others, asking, file, faults, up, status>>

Ask(r) ==
    /\ looping /\ asking = 0 /\ \A q \in 1 .. r - 1 : req[q] # "new"
    /\ Goto(r, "new", "sent")
    /\ asking' = r
    /\ UNCHANGED <<offset, freed, holder, reply, torn, others, calls, looping, file, faults, up, status>>

\* write(), which nobody tests: a piece may be written in part or not at all.
Keep(piece) ==
    \/ file' = Append(file, piece) /\ UNCHANGED faults
    \/ file' \in {file, Append(file, piece)} /\ faults' = TRUE

\* The end ends the loop.
Answered ==
    /\ asking # 0 /\ reply[asking] # None
    /\ \/ reply[asking] = End /\ looping' = FALSE /\ UNCHANGED <<file, faults>>
       \/ reply[asking] # End /\ Keep(reply[asking]) /\ UNCHANGED looping
    /\ reply' = [reply EXCEPT ![asking] = None]
    /\ asking' = 0
    /\ UNCHANGED <<offset, freed, holder, req, torn, others, calls, up, status>>

\* curl gives up, or no handler has the path (404): the loop ends, the call returns COMERR_OK, a late answer is
\* not read, and the request may still be on its way.
GivenUp ==
    /\ asking # 0
    /\ faults' = TRUE /\ looping' = FALSE
    /\ reply' = [reply EXCEPT ![asking] = None]
    /\ asking' = 0
    /\ UNCHANGED <<offset, freed, holder, req, torn, others, calls, file, up, status>>

Lost(r) ==
    /\ Goto(r, "sent", "lost")
    /\ faults' = TRUE
    /\ UNCHANGED <<offset, freed, holder, reply, torn, others, asking, calls, looping, file, up, status>>

---------------------------------------------------------------------------
(* The server: addPutfileSession() and putFile(), libeve_https.cpp:385-451 *)

OtherSession ==
    /\ others < MaxOthers /\ others' = others + 1
    /\ torn' = torn \cup Tears
    /\ UNCHANGED <<offset, freed, holder, req, reply, asking, calls, looping, file, faults, up, status>>

Arrive(r) ==
    /\ Goto(r, "sent", "find")
    /\ UNCHANGED <<offset, freed, holder, reply, torn, others, asking, calls, looping, file, faults,
                   up, status>>

\* m_fileMapping.find(context), with no mutex.  An unknown context has no answer.
Find(r) ==
    /\ \/ (~freed \/ r \in torn) /\ Goto(r, "find", "found") /\ UNCHANGED <<faults, status>>
       \/ (freed \/ r \in torn) /\ Goto(r, "find", "silent") /\ faults' = TRUE /\ UNCHANGED status
       \/ r \in torn /\ Goto(r, "find", "silent") /\ status' = "undefined" /\ UNCHANGED faults
    /\ torn' = torn \ {r}
    /\ UNCHANGED <<offset, freed, holder, reply, others, asking, calls, looping, file, up>>

\* Faulty variant: two threads serve one session at once.
MutexFree_Ignored == TRUE

MutexFree == holder = 0

\* Faulty variant: a way out of putFile() leaves the mutex locked.
Unlocked_Never == holder

Unlocked == 0

\* Held from the reading of the offset to its advance.
Lock(r) ==
    /\ ~freed /\ MutexFree /\ holder' = r
    /\ Goto(r, "found", "locked")
    /\ UNCHANGED <<offset, freed, reply, torn, others, asking, calls, looping, file, faults, up, status>>

\* Line 415: no such file now; the mutex is released and nobody answered.
Unreadable(r) ==
    /\ ~freed /\ holder' = Unlocked
    /\ Goto(r, "locked", "silent")
    /\ faults' = TRUE
    /\ UNCHANGED <<offset, freed, reply, torn, others, asking, calls, looping, file, up, status>>

\* An answer reaches a client that still waits for it.
Reply(r, what) == reply' = [reply EXCEPT ![r] = IF asking = r THEN what ELSE None]

\* Faulty variant: the file is taken to end with the first short read.
MorePieces_OneLess == offset + 1 < N

MorePieces == offset < N

Put(r) ==
    /\ ~freed /\ MorePieces
    /\ Goto(r, "locked", "written")
    /\ Reply(r, offset + 1)
    /\ UNCHANGED <<offset, freed, holder, torn, others, asking, calls, looping, file, faults, up, status>>

\* Line 448: the piece counts as sent whatever became of it.
Advance(r) ==
    /\ ~freed
    /\ Goto(r, "written", "done")
    /\ offset' = offset + 1 /\ holder' = Unlocked
    /\ UNCHANGED <<freed, reply, torn, others, asking, calls, looping, file, faults, up, status>>

\* Lines 421-422: the mutex is released first.
AtEnd(r) ==
    /\ ~freed /\ ~MorePieces
    /\ Goto(r, "locked", "ending")
    /\ holder' = Unlocked
    /\ UNCHANGED <<offset, freed, reply, torn, others, asking, calls, looping, file, faults, up, status>>

\* Lines 423-439: erase under m_fileMutex, delete, answer.
EndSession(r) ==
    /\ ~freed /\ freed' = TRUE
    /\ Goto(r, "ending", "done")
    /\ torn' = torn \cup Tears
    /\ Reply(r, End)
    /\ UNCHANGED <<offset, holder, others, asking, calls, looping, file, faults, up, status>>

\* The iterator and the FileInfo of another thread's session are gone.
UseFreed(r) ==
    /\ freed /\ req[r] \in {"found", "locked", "written", "ending"}
    /\ status' = "undefined"
    /\ UNCHANGED <<down, up>>

Serve(r) == \/ Arrive(r) \/ Find(r) \/ Lock(r) \/ Put(r) \/ Advance(r)
            \/ AtEnd(r) \/ EndSession(r) \/ UseFreed(r)

---------------------------------------------------------------------------
(* The upload: uploadFile(), and downloadFile()/writeFile() of the server *)

Post ==
    /\ post = "ready" /\ post' = "flying"
    /\ UNCHANGED <<sending, stored, cut, down, status>>

\* ofstream::app, with neither the open nor a write tested; where no handler
\* has the path, a 404 and nothing stored.  The end stores nothing.
Store ==
    \/ sending > N /\ UNCHANGED <<stored, cut>>
    \/ sending <= N /\ stored' = Append(stored, sending) /\ UNCHANGED cut
    \/ sending <= N /\ stored' \in {stored, Append(stored, sending)} /\ cut' = cut \cup {sending}

\* Faulty variant: the upload goes on after a failed post.
AfterFailure_Ignored == [post |-> "ready", sending |-> sending + 1]

\* The call returns -1 at the first post that fails.
AfterFailure == [post |-> "-1", sending |-> sending]

\* Only curl's code is tested: any answer will do, a 404 included.
Posted ==
    /\ post = "flying"
    /\ Store
    /\ post' = (IF sending = End THEN "OK" ELSE "ready") /\ sending' = sending + 1
    /\ UNCHANGED <<down, status>>

\* The post fails before the server has it, after, or while it is on its way.
PostFails ==
    /\ post = "flying"
    /\ \/ UNCHANGED <<stored, cut>> /\ post' \in {AfterFailure.post, "stray"}
       \/ Store /\ post' = AfterFailure.post
    /\ sending' = IF post' = "stray" THEN sending ELSE AfterFailure.sending
    /\ UNCHANGED <<down, status>>

StrayArrives ==
    /\ post = "stray" /\ Store
    /\ post' = AfterFailure.post /\ sending' = AfterFailure.sending
    /\ UNCHANGED <<down, status>>

---------------------------------------------------------------------------
Next == /\ status = "alive"
        /\ \/ Download \/ Answered \/ GivenUp \/ OtherSession
           \/ \E r \in Requests : Ask(r) \/ Lost(r) \/ Unreadable(r) \/ Serve(r)
           \/ Post \/ Posted \/ PostFails \/ StrayArrives

Spec == Init /\ [][Next]_vars

Undefined == status = "undefined"

\* Threads run and the wire delivers what it does not lose; that curl gives up
\* is not assumed, since no timeout is set unless the caller asks for one.
\* Nothing that is claimed of an upload needs fairness.
Fairness == WF_vars(~Undefined /\ (Answered \/ \E r \in Requests : Ask(r) \/ Serve(r)))

FairSpec == Spec /\ Fairness

---------------------------------------------------------------------------
(* Properties *)

(* Every variable has its type. *)
TypeOK ==
    /\ offset \in Nat /\ {freed, looping, faults} \subseteq BOOLEAN
    /\ holder \in Requests \cup {0} /\ asking \in Requests \cup {0}
    /\ req \in [Requests -> {"new", "sent", "lost", "silent", "find", "found", "locked",
                             "written", "ending", "done"}]
    /\ reply \in [Requests -> 0 .. End] /\ torn \subseteq Requests
    /\ others \in 0 .. MaxOthers /\ calls \in 0 .. MaxCalls
    /\ file \in Seq(1 .. N) /\ stored \in Seq(1 .. N) /\ cut \subseteq 1 .. N
    /\ post \in {"ready", "flying", "stray", "OK", "-1"} /\ sending \in 1 .. N + 2
    /\ status \in {"alive", "undefined"}

(* Whatever is lost, given up or asked for again, and although a piece is   *)
(* answered before the offset is advanced past it (libeve_https.cpp:447),   *)
(* the client never appends a piece twice nor an earlier one later.         *)
PiecesOnceInOrder == \A i, j \in DOMAIN file : i < j => file[i] < file[j]

(* As long as no request and no write of the client fails, every piece the  *)
(* offset is past is in the file or in the answer the client waits for, and *)
(* a download that has returned is whole: downloadFile() itself cannot      *)
(* tell, it returns OK.                                                     *)
(* Nor does the session's thread touch what another deleted, although the   *)
(* session is looked up, used and deleted with no common lock (lines 408,   *)
(* 436), unless others are added meanwhile.                                 *)
NothingMissing ==
    ~faults =>
        /\ Undefined => others > 0
        /\ \A piece \in 1 .. offset :
              (\E i \in DOMAIN file : file[i] = piece) \/ (asking # 0 /\ reply[asking] = piece)
        /\ ~looping /\ calls > 0 => Len(file) = N

(* However posts fail, are stored late, in part or not at all, no piece of  *)
(* an upload is stored twice or an earlier one later, and what is missing   *)
(* when the client has gone on or returned OK is only what the server cut   *)
(* but answered.  uploadFile() cannot tell: it tests curl's code alone      *)
(* (curl_client.cpp:246, 268), writeFile() nothing (libeve_https.cpp:498).  *)
(* If nothing was cut, what is stored is a beginning of the file, and the   *)
(* whole file when the call returns OK.                                     *)
UploadLosesOnlyCut ==
    /\ \A i, j \in DOMAIN stored : i < j => stored[i] < stored[j]
    /\ \A piece \in 1 .. N : piece < sending =>
          piece \in cut \/ \E i \in DOMAIN stored : stored[i] = piece
    /\ cut = {} => /\ \A i \in DOMAIN stored : stored[i] = i
                   /\ post = "OK" => Len(stored) = N

(* A download ends unless a request fails: no thread of the server waits    *)
(* for ever for the mutex of the session (libeve_https.cpp:409-450).        *)
DownloadEnds == looping ~> ~looping \/ faults \/ Undefined
=============================================================================
