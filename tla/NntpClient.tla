----------------------------- MODULE NntpClient -----------------------------
(***************************************************************************)
(* One NNTP connection: packages/nntp/src/client.ts with the login of      *)
(* auth.ts and the framing of response-buffer.ts.                          *)
(*                                                                         *)
(* A step is what runs in one turn of the event loop.  Replies travel as   *)
(* lines, each tagged with the command it answers; the client does not see *)
(* the tag, which is the point.  The server answers in order, and its      *)
(* lines arrive late, or never.                                            *)
(*                                                                         *)
(* The client is used in one of two ways.  NntpPool logs in, then runs one *)
(* command at a time and never touches a client again after one failed.    *)
(* Shared, anyone may queue a command at any time.                         *)
(***************************************************************************)
EXTENDS Integers, Sequences

CONSTANTS
  N,      \* how many calls of authenticate, stat, body, quit ... are made
  Eager,  \* may a caller ask while connect() still awaits the greeting?
  Nobody  \* #waiter = null

ASSUME CallsAssumption == N \in Nat
ASSUME EagerAssumption == Eager \in BOOLEAN

(* Calls are numbered in the order they are made; connect() is call 0. *)
Calls    == 1 .. N
Connect  == 0
Everyone == Calls \cup {Connect}
Waits    == [call : Everyone, want : {"line", "block"}]

ASSUME NobodyAssumption == Nobody \notin Waits

VARIABLES
  pooled,   \* is the client used by NntpPool, or shared
  kind,     \* what each call asks
  stage,    \* how far it has come
  order,    \* the #lock chain: queued calls, the running one first
  socket,   \* #socket: "none", "open" or "gone"
  failure,  \* #failure # null
  waiter,   \* #waiter
  wire,     \* lines the server has sent or will send, not yet arrived
  buffer,   \* #buffer: lines arrived and not consumed
  heard     \* whose replies each call has been given

vars == <<pooled, kind, stage, order, socket, failure, waiter, wire, buffer, heard>>

(***************************************************************************)
(* A line of wire or buffer: whose reply it is part of, and what it is.    *)
(* ok: the code the command expects.  more: 381.  no: any other code.      *)
(* text and end: the lines of a block.                                     *)
(***************************************************************************)

(* GROUP and STAT have one line, HEAD, BODY and ARTICLE a block after it. *)
Kinds == {"auth", "line", "block", "quit"}

(***************************************************************************)
(* What a call awaits: its turn (queued), a credential (username,          *)
(* password), the reply to AUTHINFO USER or PASS (user, pass), a status    *)
(* line, the block after it; for connect() the socket (opening), the       *)
(* greeting, the reply to STARTTLS and the TLS handshake (upgrading).      *)
(***************************************************************************)
OnLine   == {"greeting", "starttls", "user", "pass", "status"}
Running  == OnLine \cup {"block", "username", "password", "opening", "upgrading"}
Settled  == {"done", "failed"}

Init ==
  /\ pooled \in BOOLEAN
  /\ kind = [c \in Everyone |-> "none"]
  /\ stage = [c \in Everyone |-> "new"]
  /\ order = <<>>
  /\ socket = "none"
  /\ failure = FALSE
  /\ waiter = Nobody
  /\ wire = <<>>
  /\ buffer = <<>>
  /\ heard = [c \in Everyone |-> {}]

-----------------------------------------------------------------------------
(* Settling, sending and waiting. *)

(* What the buffer can give a waiter: takeLine its first line, takeBlock all *)
(* up to the first terminator -- whatever those lines are.                   *)
Ends == {i \in DOMAIN buffer : buffer[i].what = "end"}
Available(w) ==
  /\ w # Nobody
  /\ IF w.want = "line" THEN buffer # <<>> ELSE Ends # {}

StartDue == order # <<>> /\ stage[Head(order)] = "queued"

(* Timers, the network and new calls wait for what is ready to run. *)
Quiet == ~Available(waiter) /\ ~StartDue

(* Operators named Bug... are the definition after them with one mistake. *)

(* A command that failed does not let the next one start. *)
BugSettle(c, s) ==
  /\ stage' = [stage EXCEPT ![c] = s]
  /\ order' = IF c = Connect \/ s = "failed" THEN order ELSE Tail(order)
  /\ waiter' = IF waiter # Nobody /\ waiter.call = c THEN Nobody ELSE waiter
  /\ IF kind[c] = "quit"
       THEN socket' = "gone" /\ wire' = <<>>
       ELSE UNCHANGED <<socket, wire>>

(* A call settles and its lock is released; quit() then destroys. *)
Settle(c, s) ==
  /\ stage' = [stage EXCEPT ![c] = s]
  /\ order' = IF c = Connect THEN order ELSE Tail(order)
  /\ waiter' = IF waiter # Nobody /\ waiter.call = c THEN Nobody ELSE waiter
  /\ IF kind[c] = "quit"
       THEN socket' = "gone" /\ wire' = <<>>
       ELSE UNCHANGED <<socket, wire>>

Await(c, s, want) ==
  /\ stage' = [stage EXCEPT ![c] = s]
  /\ waiter' = [call |-> c, want |-> want]
  /\ UNCHANGED <<order, socket>>

Reply(c, codes) == {<<[call |-> c, what |-> code]>> : code \in codes}
Block(c) ==
  <<[call |-> c, what |-> "ok"], [call |-> c, what |-> "text"], [call |-> c, what |-> "end"]>>

(* #command: write, then wait for a line.  Without a socket it throws; on a *)
(* failed one the write is lost and #wait rejects; #wait also refuses a     *)
(* second waiter, after the command has been written.                       *)
Send(c, s, replies) ==
  \/ /\ socket # "open"
     /\ Settle(c, "failed")
  \/ /\ socket = "open" /\ failure
     /\ Settle(c, "failed")
  \/ /\ socket = "open" /\ ~failure /\ waiter = Nobody
     /\ \E r \in replies : wire' = wire \o r
     /\ Await(c, s, "line")
  \/ /\ socket = "open" /\ ~failure /\ waiter # Nobody
     /\ \E r \in replies : wire' = wire \o r
     /\ stage' = [stage EXCEPT ![c] = "failed"]
     /\ order' = Tail(order)
     /\ UNCHANGED <<socket, waiter>>

-----------------------------------------------------------------------------
(* connect(): socket, greeting, perhaps STARTTLS. *)

StartConnect ==
  /\ stage[Connect] = "new"
  /\ stage' = [stage EXCEPT ![Connect] = "opening"]
  /\ \E k \in {"plain", "secured"} : kind' = [kind EXCEPT ![Connect] = k]
  /\ UNCHANGED <<pooled, order, socket, failure, waiter, wire, buffer, heard>>

SocketOpens ==
  /\ stage[Connect] = "opening"
  /\ socket' = "open"
  /\ failure' = FALSE
  /\ stage' = [stage EXCEPT ![Connect] = "greeting"]
  /\ waiter' = [call |-> Connect, want |-> "line"]
  /\ wire' \in Reply(Connect, {"ok", "no"})
  /\ UNCHANGED <<pooled, kind, order, buffer, heard>>

(* The TLS upgrade ends; #attach clears #failure again. *)
Upgraded ==
  /\ stage[Connect] = "upgrading"
  /\ Settle(Connect, "done")
  /\ failure' = FALSE
  /\ UNCHANGED <<pooled, kind, buffer, heard>>

SocketFails ==
  /\ stage[Connect] \in {"opening", "upgrading"}
  /\ Settle(Connect, "failed")
  /\ UNCHANGED <<pooled, kind, failure, buffer, heard>>

-----------------------------------------------------------------------------
(* #serialize: a call joins the chain and runs when those before settled. *)

(* A client is used again after a command failed on it. *)
BugPoolMayCall(k) ==
  /\ order = <<>>
  /\ k # "quit"
  /\ k = "auth" <=> \A q \in Calls : stage[q] = "new"

(* NntpPool's discipline: log in first, one command at a time, none after a *)
(* failure, and no quit.                                                    *)
PoolMayCall(k) ==
  /\ order = <<>>
  /\ \A q \in Everyone : stage[q] # "failed"
  /\ k # "quit"
  /\ k = "auth" <=> \A q \in Calls : stage[q] = "new"

(* Whoever shares the client and does not await connect() may ask before it *)
(* has settled: the greeting is awaited outside the lock.                   *)
MayCall(k) ==
  \/ stage[Connect] = "done"
  \/ /\ Eager /\ ~pooled /\ k # "quit"
     /\ stage[Connect] = "greeting" /\ kind[Connect] = "plain"

Call(c, k) ==
  /\ Quiet
  /\ stage[c] = "new" /\ \A q \in 1 .. c - 1 : stage[q] # "new"
  /\ MayCall(k)
  /\ pooled => PoolMayCall(k)
  /\ kind' = [kind EXCEPT ![c] = k]
  /\ IF k = "quit" /\ socket # "open"
       THEN /\ stage' = [stage EXCEPT ![c] = "done"]
            /\ UNCHANGED order
       ELSE /\ stage' = [stage EXCEPT ![c] = "queued"]
            /\ order' = Append(order, c)
  /\ UNCHANGED <<pooled, socket, failure, waiter, wire, buffer, heard>>

(* Any queued call may start when the lock is free. *)
BugStart(c) ==
  /\ StartDue /\ stage[c] = "queued"
  /\ \/ /\ kind[c] = "auth"
        /\ stage' = [stage EXCEPT ![c] = "username"]
        /\ UNCHANGED <<order, socket, waiter, wire>>
     \/ kind[c] = "block" /\ Send(c, "status", Reply(c, {"no"}) \cup {Block(c)})
     \/ kind[c] \in {"line", "quit"} /\ Send(c, "status", Reply(c, {"ok", "no"}))
  /\ UNCHANGED <<pooled, kind, failure, buffer, heard>>

(* authenticate() first resolves the username, which may take a while. *)
Start(c) ==
  /\ StartDue /\ c = Head(order)
  /\ \/ /\ kind[c] = "auth"
        /\ stage' = [stage EXCEPT ![c] = "username"]
        /\ UNCHANGED <<order, socket, waiter, wire>>
     \/ kind[c] = "block" /\ Send(c, "status", Reply(c, {"no"}) \cup {Block(c)})
     \/ kind[c] \in {"line", "quit"} /\ Send(c, "status", Reply(c, {"ok", "no"}))
  /\ UNCHANGED <<pooled, kind, failure, buffer, heard>>

(* A provider answers, fails, or answers something check() refuses. *)
CredentialResolves(c) ==
  /\ Quiet
  /\ \/ stage[c] = "username" /\ Send(c, "user", Reply(c, {"ok", "more", "no"}))
     \/ stage[c] = "password" /\ Send(c, "pass", Reply(c, {"ok", "no"}))
     \/ stage[c] \in {"username", "password"} /\ Settle(c, "failed")
  /\ UNCHANGED <<pooled, kind, failure, buffer, heard>>

-----------------------------------------------------------------------------
(* #drain gives the waiter its line or block, and the call goes on. *)

(* The line has the code this call expects: what matters is the command it *)
(* answers, not the call.                                                  *)
Expected(c, line) == line.what = "ok" /\ kind[line.call] = kind[c]

(* The call ends at the status line and its block is left behind. *)
BugAcceptNever(c) ==
  stage[c] \in {"user", "pass", "status"} /\ Settle(c, "done")

(* The code is the expected one: the call is done, or its block is next. *)
Accept(c) ==
  \/ stage[c] \in {"user", "pass"} /\ Settle(c, "done")
  \/ stage[c] = "status" /\ kind[c] # "block" /\ Settle(c, "done")
  \/ /\ stage[c] = "status" /\ kind[c] = "block"
     /\ Await(c, "block", "block")
     /\ UNCHANGED wire

(* connect() goes on from the greeting to STARTTLS and the upgrade. *)
AcceptConnecting ==
  \/ /\ stage[Connect] = "greeting" /\ kind[Connect] = "plain"
     /\ Settle(Connect, "done")
  \/ /\ stage[Connect] = "greeting" /\ kind[Connect] = "secured"
     /\ Await(Connect, "starttls", "line")
     /\ \E r \in Reply(Connect, {"ok", "no"}) : wire' = wire \o r
  \/ /\ stage[Connect] = "starttls"
     /\ stage' = [stage EXCEPT ![Connect] = "upgrading"]
     /\ waiter' = Nobody
     /\ UNCHANGED <<order, socket, wire>>

(* 381 to the username: the password is resolved only now. *)
AskPassword(c) ==
  /\ stage' = [stage EXCEPT ![c] = "password"]
  /\ waiter' = Nobody
  /\ UNCHANGED <<order, socket, wire>>

TakeLine(c) ==
  /\ Available(waiter) /\ waiter = [call |-> c, want |-> "line"]
  /\ buffer' = Tail(buffer)
  /\ heard' = [heard EXCEPT ![c] = @ \cup {Head(buffer).call}]
  /\ LET line == Head(buffer)
         askedForMore == stage[c] = "user" /\ line.what = "more"
     IN \/ Expected(c, line) /\ IF c = Connect THEN AcceptConnecting ELSE Accept(c)
        \/ askedForMore /\ AskPassword(c)
        \/ ~Expected(c, line) /\ ~askedForMore /\ Settle(c, "failed")
  /\ UNCHANGED <<pooled, kind, failure>>

TakeBlock(c) ==
  /\ Available(waiter) /\ waiter = [call |-> c, want |-> "block"]
  /\ LET n == CHOOSE i \in Ends : \A j \in Ends : i <= j IN
       /\ heard' = [heard EXCEPT ![c] = @ \cup {buffer[i].call : i \in 1 .. n}]
       /\ buffer' = SubSeq(buffer, n + 1, Len(buffer))
  /\ Settle(c, "done")
  /\ UNCHANGED <<pooled, kind, failure>>

-----------------------------------------------------------------------------
(* The network, the timer, destroy(). *)

Deliver ==
  /\ Quiet
  /\ socket = "open" /\ ~failure /\ wire # <<>>
  /\ buffer' = Append(buffer, Head(wire))
  /\ wire' = Tail(wire)
  /\ UNCHANGED <<pooled, kind, stage, order, socket, failure, waiter, heard>>

(* The deadline passes.  The socket stays, and so does what is on its way. *)
Timeout ==
  /\ Quiet
  /\ waiter # Nobody
  /\ Settle(waiter.call, "failed")
  /\ UNCHANGED <<pooled, kind, failure, buffer, heard>>

(* The connection ends: whoever awaits a reply is told, and what is on its *)
(* way is lost.                                                            *)
Hangup(sock) ==
  /\ wire' = <<>>
  /\ \/ /\ waiter = Nobody
        /\ socket' = sock
        /\ UNCHANGED <<stage, order, waiter>>
     \/ /\ waiter # Nobody
        /\ stage' = [stage EXCEPT ![waiter.call] = "failed"]
        /\ order' = IF waiter.call = Connect THEN order ELSE Tail(order)
        /\ waiter' = Nobody
        /\ socket' = IF kind[waiter.call] = "quit" THEN "gone" ELSE sock

(* 'close' or 'error' on the attached socket: #fail. *)
PeerCloses ==
  /\ Quiet
  /\ socket = "open" /\ ~failure
  /\ stage[Connect] # "upgrading"
  /\ failure' = TRUE
  /\ Hangup("open")
  /\ UNCHANGED <<pooled, kind, buffer, heard>>

(* Called by the owner at any time once connect() has settled; the pool     *)
(* destroys idle clients, and those on which something failed.              *)
Destroy ==
  /\ ~Available(waiter)
  /\ socket = "open"
  /\ stage[Connect] \in Settled
  /\ pooled => order = <<>>
  /\ Hangup("gone")
  /\ UNCHANGED <<pooled, kind, failure, buffer, heard>>

Next ==
  \/ StartConnect \/ SocketOpens \/ Upgraded \/ SocketFails
  \/ \E c \in Calls :
       \/ \E k \in Kinds : Call(c, k)
       \/ Start(c) \/ CredentialResolves(c) \/ TakeBlock(c)
  \/ \E c \in Everyone : TakeLine(c)
  \/ Deliver \/ Timeout \/ PeerCloses \/ Destroy

(***************************************************************************)
(* The event loop runs what is ready, timers fire, and a credential        *)
(* provider answers or fails.  Nothing is assumed of the server or of the  *)
(* network, and nobody need call anything.                                 *)
(***************************************************************************)
Fairness ==
  /\ \A c \in Calls : WF_vars(Start(c)) /\ WF_vars(CredentialResolves(c))
  /\ \A c \in Calls : WF_vars(TakeBlock(c))
  /\ \A c \in Everyone : WF_vars(TakeLine(c))
  /\ WF_vars(Timeout)

Spec == Init /\ [][Next]_vars /\ Fairness

-----------------------------------------------------------------------------
(* Properties. *)

(* The lock holds a whole command, a login's two exchanges and the wait for *)
(* its credentials included: at most one call is between its start and its  *)
(* end, it is the first in the chain, and only it awaits a reply.           *)
OneCommandAtATime ==
  /\ \A c \in Calls : stage[c] \in Running => order # <<>> /\ c = Head(order)
  /\ waiter # Nobody => stage[waiter.call] \in OnLine \cup {"block"}
  /\ \A c \in Everyone : stage[c] \in OnLine \cup {"block"} =>
       waiter # Nobody /\ waiter.call = c

(* Used by the pool, no call is ever given a line that answers another, for *)
(* all the timeouts and lost connections there may be (pool.ts:141-145).    *)
PooledRepliesAreOwn == pooled => \A c \in Everyone : heard[c] \subseteq {c}

(* A connection the pool holds idle is not mid-response: nothing is on its  *)
(* way and nothing is left in the buffer for the next caller to read.       *)
IdleIsClean ==
  /\ pooled
  /\ stage[Connect] = "done"
  /\ \A c \in Calls : stage[c] \in {"new", "done"}
  => wire = <<>> /\ buffer = <<>>

(* Every call settles, on a silent server, a closed or a destroyed          *)
(* connection too: a failed command releases the lock for the next.         *)
EveryCallSettles ==
  \A c \in Calls : stage[c] = "queued" ~> stage[c] \in Settled

(* "Serializes commands so two in-flight requests cannot interleave"        *)
(* (client.ts:47): no call succeeds with the reply to another.              *)
RepliesAreOwn ==
  \A c \in Calls : stage[c] = "done" => heard[c] \subseteq {c}
=============================================================================
