---------------------------- MODULE OpModeClient ----------------------------
(***************************************************************************)
(* The REST side of background jobs: OpMode::process for POST, GET and    *)
(* DELETE under /rest/op (src/src/server/opmode.cc) and the               *)
(* MultiResponseCommand calls it makes (src/src/server/multirespcmd.cc).  *)
(* Every call opens a new connection to the registry, writes one request  *)
(* and, for <details>, <process> and <next>, blocks reading the reply.    *)
(* A browser re-polls GET /rest/op/<id> after 200/202 until it gets 410   *)
(* (OPMODE_PROCESS_FINISHED).                                             *)
(***************************************************************************)
EXTENDS ChunkerTypes

VARIABLES
  cl,      \* [Clients -> [pc, tok, off]]
  backlog, \* Seq(Request), shared with ChunkerManager
  resp,    \* [Clients -> reply], shared with ChunkerManager
  used,    \* tokens generated so far (generate_token never repeats here)
  got,     \* [Tokens -> [0..MaxOut-1 -> 0..2]]: times each byte was served
  ended,   \* tokens for which a client got "END"
  spool, endMark \* see ChunkerProcessor

\* A browser between requests: every request builds a fresh
\* MultiResponseCommand and closes its socket, so no request state is
\* kept (tok and off are placeholders until the next request)
ClientIdle == [pc |-> "idle", tok |-> CHOOSE t \in Tokens : TRUE, off |-> 0]

\* mutant: a connect() that never waits for a free slot of listen(5)
SendNoBacklogBound(c, verb, t, stmt) ==
  backlog' = Append(backlog, [verb |-> verb, tok |-> t,
                              user |-> ClientUser[c], stmt |-> stmt,
                              from |-> c])

\* MultiResponseCommand::init() connects (blocking while the registry's
\* listen backlog is full) and the call writes one request
Send(c, verb, t, stmt) ==
  /\ Len(backlog) < Backlog
  /\ backlog' = Append(backlog, [verb |-> verb, tok |-> t,
                                 user |-> ClientUser[c], stmt |-> stmt,
                                 from |-> c])

\* POST /rest/op/<cmd>: start() generates a token, writes <command> and
\* returns without a reply; the id goes back in the Location header.
\* stmt = FALSE is the POST to "/rest/op/" + "/" with nothing after it.
Start(c) ==
  /\ cl[c].pc = "idle"
  /\ \E t \in Tokens \ used, stmt \in BOOLEAN :
       /\ Send(c, "command", t, stmt)
       /\ used' = used \cup {t}
  /\ UNCHANGED <<cl, resp, got, ended, spool, endMark>>

\* GET /rest/op/<id> for an id the browser holds; a 16-character id of
\* another user's job is accepted too. get_process_details sends <details>.
Poll(c) ==
  /\ cl[c].pc = "idle"
  /\ \E t \in used :
       /\ Send(c, "details", t, FALSE)
       /\ cl' = [cl EXCEPT ![c] = [pc |-> "details", tok |-> t, off |-> 0]]
  /\ UNCHANGED <<resp, used, got, ended, spool, endMark>>

\* The browser repeats GET /rest/op/<id> after a 200 or 202
Repoll(c) ==
  /\ cl[c].pc = "poll"
  /\ Send(c, "details", cl[c].tok, FALSE)
  /\ cl' = [cl EXCEPT ![c].pc = "details"]
  /\ UNCHANGED <<resp, used, got, ended, spool, endMark>>

\* get_process_details: no match (pd._id == "") is 410; else get_chunk
\* opens the next connection and sends <next>.
DetailsReply(c) ==
  /\ cl[c].pc = "details"
  /\ resp[c] # NoReply
  /\ resp' = [resp EXCEPT ![c] = NoReply]
  /\ IF resp[c] = {}
       THEN /\ cl' = [cl EXCEPT ![c] = ClientIdle]
            /\ UNCHANGED backlog
       ELSE /\ Send(c, "next", cl[c].tok, FALSE)
            /\ cl' = [cl EXCEPT ![c].pc = "next"]
  /\ UNCHANGED <<used, got, ended, spool, endMark>>

\* get_chunk: a reply without the fifth field returns "" (202 Accepted)
NextReply(c) ==
  /\ cl[c].pc = "next"
  /\ resp[c] # NoReply
  /\ resp' = [resp EXCEPT ![c] = NoReply]
  /\ cl' = [cl EXCEPT ![c] = IF resp[c] = Empty THEN [@ EXCEPT !.pc = "poll"]
                             ELSE [@ EXCEPT !.pc = "fetch", !.off = resp[c]]]
  /\ UNCHANGED <<backlog, used, got, ended, spool, endMark>>

\* Bytes [o, o + CHUNKER_READ_SIZE) of the spool file, cut at its end
Served(t, o) == o .. (Min2(o + ReadSize, spool[t]) - 1)

\* get_chunk, after the reply: spool file present and offset >= 0: fseek
\* and fread up to CHUNKER_READ_SIZE bytes (200, or 202 if none). Else an
\* _end marker means "END": unlink the marker and the spool file, then
\* kill() sends <delete> and the request answers 410. Else 202.
Fetch(c) ==
  LET t == cl[c].tok
      o == cl[c].off
  IN
  /\ cl[c].pc = "fetch"
  /\ IF spool[t] # Absent /\ o >= 0
       THEN /\ got' = [got EXCEPT ![t] =
                 [p \in DOMAIN @ |-> IF p \in Served(t, o)
                                     THEN Min2(@[p] + 1, 2) ELSE @[p]]]
            /\ cl' = [cl EXCEPT ![c].pc = "poll"]
            /\ UNCHANGED <<backlog, ended, spool, endMark>>
     ELSE IF endMark[t]
       THEN /\ endMark' = [endMark EXCEPT ![t] = FALSE]
            /\ spool' = [spool EXCEPT ![t] = Absent]
            /\ ended' = ended \cup {t}
            /\ Send(c, "delete", t, FALSE)
            /\ cl' = [cl EXCEPT ![c] = ClientIdle]
            /\ UNCHANGED got
       ELSE /\ cl' = [cl EXCEPT ![c].pc = "poll"]
            /\ UNCHANGED <<backlog, got, ended, spool, endMark>>
  /\ UNCHANGED <<resp, used>>

\* DELETE /rest/op/<id>: kill() writes <delete>, no reply is read
Cancel(c) ==
  /\ cl[c].pc = "idle"
  /\ \E t \in used : Send(c, "delete", t, FALSE)
  /\ UNCHANGED <<cl, resp, used, got, ended, spool, endMark>>

\* GET /rest/op: get_processes sends <process> and reads the listing
List(c) ==
  /\ cl[c].pc = "idle"
  /\ Send(c, "process", CHOOSE t \in Tokens : TRUE, FALSE)
  /\ cl' = [cl EXCEPT ![c].pc = "list"]
  /\ UNCHANGED <<resp, used, got, ended, spool, endMark>>

ListReply(c) ==
  /\ cl[c].pc = "list"
  /\ resp[c] # NoReply
  /\ resp' = [resp EXCEPT ![c] = NoReply]
  /\ cl' = [cl EXCEPT ![c] = ClientIdle]
  /\ UNCHANGED <<backlog, used, got, ended, spool, endMark>>

\* The steps a browser takes on its own; polling a job it started is the
\* part that fairness covers.
Next ==
  \E c \in Clients :
    \/ Start(c) \/ Poll(c) \/ Repoll(c) \/ DetailsReply(c) \/ NextReply(c) \/ Fetch(c)
    \/ Cancel(c) \/ List(c) \/ ListReply(c)
=============================================================================
