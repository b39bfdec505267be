------------------------------ MODULE HttpSync ------------------------------
(* http.getSync and http.postSync (http.cpp): the request is made by a curl    *)
(* process, which answers in two temporary files and, for the status, on a     *)
(* pipe, while the program stands still in read() and waitpid().  It is one    *)
(* more call of several system calls beside those of FileSystem, sharing its   *)
(* descriptor table, its full disk and its stack.  curl and the server behind  *)
(* it are external: curl succeeds with the whole answer or fails with a part.  *)
EXTENDS FileSystem

VARIABLE bridge    \* tmp: the temporary files; curl: the child process

syncVars == <<vars, bridge>>

NoFile == <<"no file">>
NoTmp == [reqbody |-> NoFile, hdrs |-> NoFile, body |-> NoFile]
NoCurl == [at |-> "none", exit |-> 0, status |-> 0, final |-> <<>>]
Pipe(flag) == [ino |-> 0, pos |-> 0, flags |-> {flag}]

----------------------------------------------------------------------------
(* The header file: a status line, headers and a blank line for each answer,  *)
(* the redirects first.                                                       *)
StatusLine(n) == [kind |-> "status", name |-> "", value |-> n]
Header(n, v) == [kind |-> "header", name |-> n, value |-> v]
Blank == [kind |-> "blank", name |-> "", value |-> 0]
Lower(n) == IF n = "Type" THEN "type" ELSE n

LastStart(lines) ==
  CHOOSE i \in DOMAIN lines : lines[i].kind = "status" /\ \A j \in (i + 1)..Len(lines) : lines[j].kind # "status"

\* The headers from the line after the last status line to the blank line,
\* their names in lower case, the later of two of the same name.
ParseHeaders(lines) ==
  LET start == LastStart(lines)
      stop == CHOOSE i \in (start + 1)..Len(lines) :
                lines[i].kind = "blank" /\ \A j \in start..(i - 1) : lines[j].kind # "blank"
      named(n) == {i \in (start + 1)..(stop - 1) : Lower(lines[i].name) = n}
  IN  [n \in {Lower(lines[i].name) : i \in (start + 1)..(stop - 1)} |->
         lines[CHOOSE i \in named(n) : \A j \in named(n) : j <= i].value]

----------------------------------------------------------------------------
(* DoCurl *)
HttpFrame(post) == [op |-> "http", post |-> post, at |-> "start", fd |-> 0, answer |-> <<>>]
InHttp(at) == stack # <<>> /\ Top.op = "http" /\ Top.at = at

HttpCall(post) == [Call("http", "sync", FALSE, FALSE, <<>>) EXCEPT !.post = post]

\* (An empty body is no body: its POST takes the path of a GET.)
HttpGetSync == Begin(HttpCall(FALSE), HttpFrame(FALSE))
HttpPostSync == Begin(HttpCall(TRUE), HttpFrame(TRUE))

CallHttp ==
  /\ Spend("calls")
  /\ HttpGetSync \/ HttpPostSync
  /\ told' = ""
  /\ UNCHANGED <<os, immediates, mine, rs, ws, bridge>>

\* FindCurl finds one of its candidates or nothing.
FindCurl ==
  /\ InHttp("start")
  /\ \/ Change([Top EXCEPT !.at = IF Top.post THEN "request" ELSE "fork"]) /\ Going
     \/ Throw("no curl")
  /\ UNCHANGED <<os, bridge>>

\* The body of a POST goes to a file of its own, in one fopen ... fclose.
WritesRequest ==
  /\ InHttp("request")
  /\ os' = os
  /\ CASE FreeFds(os) = {} -> Throw("EMFILE") /\ UNCHANGED bridge
       [] FreeFds(os) # {} /\ os.full -> Throw("ENOSPC") /\ bridge' = [bridge EXCEPT !.tmp.reqbody = <<>>]
       [] OTHER -> /\ bridge' = [bridge EXCEPT !.tmp.reqbody = Bytes]
                   /\ Change([Top EXCEPT !.at = "fork"]) /\ Going

\* pipe() and fork(); both ends are closed again when fork() fails, and the
\* parent keeps the end it reads.  The request's file stays when either fails.
Forks ==
  /\ InHttp("fork")
  /\ IF Cardinality(FreeFds(os)) < 2 THEN Throw("EMFILE") /\ UNCHANGED <<os, bridge>>
     ELSE \/ Throw("EAGAIN") /\ UNCHANGED <<os, bridge>>
          \/ /\ os' = [os EXCEPT !.fds[LowestFd(os)] = Pipe("read")]
             /\ bridge' = [bridge EXCEPT !.curl = [NoCurl EXCEPT !.at = "running"]]
             /\ Change([Top EXCEPT !.at = "read", !.fd = LowestFd(os)]) /\ Going

\* curl, to its end: the answer after at most one redirect, or a failure that
\* leaves part of it.
FirstAnswer == <<StatusLine(301), Header("Where", 1), Blank>>
FinalAnswer == <<StatusLine(200), Header("Type", 2), Header("type", 3), Blank>>
Curl ==
  /\ bridge.curl.at = "running"
  /\ \E redirected, fails \in BOOLEAN :
       LET hdrs == IF redirected THEN FirstAnswer \o FinalAnswer ELSE FinalAnswer
           bad == fails \/ os.full
       IN  bridge' = [bridge EXCEPT
             !.curl = [at |-> "ended", exit |-> IF bad THEN 28 ELSE 0, status |-> 200, final |-> [type |-> 3]],
             !.tmp.hdrs = IF os.full THEN <<>> ELSE hdrs,
             !.tmp.body = IF bad THEN SubSeq(Bytes, 1, 1) ELSE Bytes]
  /\ UNCHANGED vars

\* The status is read to the end of the pipe, which is when curl is gone.
\* waitpid() then gets its exit status, unless a SIGCHLD of another child
\* interrupts it: nobody looks at its result, and the status is taken as 0.
\* A failure removes the files and throws.
Failed(exit) == exit # 0
MopUp == [bridge.tmp EXCEPT !.hdrs = NoFile, !.body = NoFile, !.reqbody = IF Top.post THEN NoFile ELSE @]
Reaps ==
  /\ InHttp("read") /\ bridge.curl.at = "ended"
  /\ os' = KClose(os, Top.fd)
  /\ \/ /\ Failed(bridge.curl.exit)
        /\ Throw("curl exited")
        /\ bridge' = [bridge EXCEPT !.tmp = MopUp, !.curl = NoCurl]
     \/ /\ ~Failed(bridge.curl.exit)
        /\ Change([Top EXCEPT !.at = "answer"]) /\ Going
        /\ bridge' = bridge
WaitIsInterrupted ==
  /\ InHttp("read") /\ bridge.curl.at = "ended" /\ Spend("faults")
  /\ os' = KClose(os, Top.fd)
  /\ Change([Top EXCEPT !.at = "answer"])
  /\ api' = [api EXCEPT !.meddled = TRUE]
  /\ UNCHANGED <<told, immediates, rs, ws, mine, bridge>>

\* ReadFileToString of both files; then they are removed and the call returns.
\* A file that cannot be read counts as empty.
ReadFileToString(content) == IF FreeFds(os) = {} THEN <<>> ELSE content
ReadsAnswer ==
  /\ InHttp("answer")
  /\ LET hdrs == ReadFileToString(bridge.tmp.hdrs) IN
     Change([Top EXCEPT !.at = "mop up",
                        !.answer = [status |-> bridge.curl.status,
                                    headers |-> IF hdrs = <<>> THEN <<>> ELSE ParseHeaders(hdrs),
                                    body |-> ReadFileToString(bridge.tmp.body)]])
  /\ os' = os /\ Going /\ bridge' = bridge
HttpReturns ==
  /\ InHttp("mop up")
  /\ bridge' = [tmp |-> MopUp, curl |-> NoCurl]
  /\ Return /\ os' = os

DoCurl == FindCurl \/ WritesRequest \/ Forks \/ Reaps \/ WaitIsInterrupted \/ ReadsAnswer \/ HttpReturns

----------------------------------------------------------------------------
SyncInit == Init /\ bridge = [tmp |-> NoTmp, curl |-> NoCurl]
Files == Next /\ UNCHANGED bridge
SyncNext == Files \/ CallHttp \/ DoCurl \/ Curl
SyncSpec ==
  /\ SyncInit /\ [][SyncNext]_syncVars
  /\ WF_syncVars(Native /\ UNCHANGED bridge) /\ WF_syncVars(Immediate /\ UNCHANGED bridge)
  /\ WF_syncVars(DoCurl) /\ WF_syncVars(Curl)

----------------------------------------------------------------------------
(* Properties *)
(* A synchronous request that returns without an error returns the status, the *)
(* headers and the body of the last answer, whole, although the disk filled or *)
(* descriptors ran out on the way; and neither a success nor a curl that       *)
(* failed leaves a temporary file behind for the next request to find.         *)
AnswerIsWhole ==
  [][api # NoCall /\ api' = NoCall /\ api.op = "http" /\ ~api.meddled =>
       /\ told' = "" =>
            Top.answer = [status |-> 200, headers |-> bridge.curl.final, body |-> Bytes]
       /\ told' \in {"", "curl exited"} =>
            bridge'.tmp \in [reqbody : IF api.post THEN {NoFile} ELSE {NoFile, <<>>, Bytes},
                             hdrs : {NoFile}, body : {NoFile}]]_syncVars

\* A call of the fs module about a file, or of getSync and postSync, that reports no
\* error has done the whole of its work.
CallsAreWhole == FilesAreWhole /\ AnswerIsWhole

----------------------------------------------------------------------------
(* What makes AnswerIsWhole inductive. *)
Type == [type |-> 3]
Whole == [status |-> 200, headers |-> Type, body |-> Bytes]
BridgeInv ==
  /\ {"tmp", "curl"} \subseteq DOMAIN bridge
  /\ DOMAIN bridge.tmp = {"reqbody", "hdrs", "body"}
  /\ bridge.tmp.reqbody \in {NoFile, <<>>, Bytes}
  /\ {"at", "exit", "status", "final"} \subseteq DOMAIN bridge.curl
  /\ bridge.curl.at = "ended" /\ bridge.curl.exit = 0 =>
       /\ bridge.curl.status = 200 /\ bridge.curl.final = Type
       /\ bridge.tmp.hdrs \in {FinalAnswer, FirstAnswer \o FinalAnswer} /\ bridge.tmp.body = Bytes
HttpFrameInv ==
  stack # <<>> /\ api.op = "http" =>
    /\ Len(stack) = 1 /\ {"op", "post", "at", "fd", "answer"} \subseteq DOMAIN Top
    /\ Top.op = "http" /\ Top.post = api.post
    /\ Top.at = "answer" => FreeFds(os) # {}
    /\ Top.at = "answer" /\ ~api.meddled => bridge.curl.at = "ended" /\ bridge.curl.exit = 0
    /\ Top.at = "mop up" /\ ~api.meddled => Top.answer = Whole /\ bridge.curl.final = Type
AnswerInv == BridgeInv /\ HttpFrameInv
=============================================================================
