------------------------------ MODULE TurnEntry ------------------------------
(***************************************************************************)
(* The two ways a turn starts.  A channel's delivery is authenticated, its *)
(* messages are stored one by one and acknowledged, and the worker turns   *)
(* them into replies later (integration/webhook.py, channels/whatsapp.py,  *)
(* services/webhook_worker.py); a chat request runs its turn while the     *)
(* client waits (integration/openai_adapter.py).  Both share the slots of  *)
(* one TurnAdmissionLimiter (services/admission.py).                       *)
(*                                                                         *)
(* What a claimed row goes through transaction by transaction, with        *)
(* several workers, is Outbox's.  Here one worker takes rows under lease   *)
(* and ends them, gives them back or loses hold of them: a row may stay    *)
(* leased with no slot, until a later claim finds its lease run out.       *)
(***************************************************************************)
EXTENDS Integers, FiniteSets, Sequences, SequencesExt

CONSTANTS
  MaxTurns,           \* max_concurrent_turns
  ClaimLimit,         \* of the worker's poll
  MaxBody,            \* adapter_max_body_bytes, webhook_max_body_bytes
  Exposed,            \* adapter_model_ids that have a runtime
  Chats, Asked,       \* chat requests, and what each may be
  Posts, Deliveries,  \* deliveries, and what each may be
  MaxTries,           \* bound: how often the provider delivers one thing
  Legacy, Channels,   \* the default channel, and every channel served
  NoName,             \* an absent or unusable id, sender or channel
  Address,            \* normalize_channel_address, NoName for an invalid one
  Accounts            \* the directory's active participants, by address

ASSUME EntryAssumption ==
  /\ MaxTurns \in Nat \ {0} /\ ClaimLimit \in Nat \ {0} /\ MaxBody \in Nat
  /\ MaxTries \in [Posts -> Nat \ {0}]
  /\ Legacy \in Channels /\ NoName \notin Channels \cup Accounts
  /\ IsFiniteSet(Chats)

(* What a delivery brings is a sequence of messages, and no sender is named *)
(* like a message without one (a provider's senders are phone numbers).     *)
Payloads == UNION {Deliveries[p] : p \in Posts}
ASSUME DeliveriesAssumption ==
  /\ \A d \in Payloads : d.msgs \in Seq(Range(d.msgs))
  /\ \A d, e \in Payloads : \A m \in Range(d.msgs), n \in Range(e.msgs) :
       m.from # <<"unresolved", n.id>>

VARIABLES
  slots,    \* the limiter's _in_flight
  chat,     \* each chat request
  post,     \* each delivery
  inbox,    \* the stored rows, in commit order; `at' is "pending" before the first
            \* claim, "leased", "again" when it is to be retried, "done" or "failed"
  poll,     \* process_available: the reservations and the claimed rows
  thread,   \* per address, the last text its conversation's checkpoint holds
  replies   \* what turns came to, as [row, to, said]: a reply once it is committed,
            \* Silence once its row is done

entryVars == <<slots, chat, post, inbox, poll, thread, replies>>

(* A text is named by the turn that wrote it; Client's are those a request  *)
(* brought along.                                                           *)
Silence == <<>>
Client == <<"client">>

NoAsk == [at |-> "new", asked |-> {}, input |-> {}, status |-> 0, said |-> Silence]
NoPost == [at |-> "new", got |-> {}, next |-> 0, tries |-> 0, status |-> 0]
IdleWorker == [at |-> "idle", reserved |-> 0, rows |-> {}]

NothingHeld ==
  /\ slots = 0 /\ inbox = <<>> /\ poll = IdleWorker
  /\ thread = [a \in Accounts |-> Silence] /\ replies = {}

EntryInit ==
  /\ NothingHeld
  /\ chat = [c \in Chats |-> NoAsk]
  /\ post = [p \in Posts |-> NoPost]

-----------------------------------------------------------------------------
(* read_bounded_body: the declared length only speeds up a refusal.         *)
Total(chunks) == FoldSeq(+, 0, chunks)
BodyFits(b) == /\ \A n \in b.declared : n <= MaxBody
               /\ Total(b.chunks) <= MaxBody

(* The status of the first check that does not pass, or 0.  A check is      *)
(* <<passes, status>>; those after a failing one are never made.            *)
FirstRefusal(checks) ==
  LET failing == {i \in DOMAIN checks : ~checks[i][1]}
  IN  IF failing = {} THEN 0 ELSE checks[Min(failing)][2]

-----------------------------------------------------------------------------
(* Chat requests.  `asked' is [key, body, parses, stream, model, user,      *)
(* msgs]; a message is [role, blank].                                       *)
Set(c, r) == chat' = [chat EXCEPT ![c] = r]
EndChat(c, status) == Set(c, [NoAsk EXCEPT !.at = "ended", !.status = status])

(* An unset adapter_api_key opens the surface.                              *)
Bearer(q) == q.key \in {"unset", "right"}
Served(q) == q.model \in Exposed
Refusal(q) ==
  FirstRefusal(<< <<Bearer(q), 401>>, <<BodyFits(q.body), 413>>, <<q.parses, 500>>,
                  <<~q.stream, 400>>, <<Served(q), 404>> >>)

(* map_messages: system messages are dropped, and so are assistant messages *)
(* that say nothing.  Their order matters to no text that is sent.          *)
HasText(m) == ~m.blank
Keeps(m) == m.role = "user" \/ (m.role = "assistant" /\ HasText(m))
Mapped(msgs) == {m \in Range(msgs) : Keeps(m)}

Request(c) ==
  /\ chat[c].at = "new"
  /\ \E q \in Asked[c] :
       \/ Refusal(q) # 0 /\ EndChat(c, Refusal(q))
       \/ Refusal(q) = 0 /\ Set(c, [NoAsk EXCEPT !.at = "resolving", !.asked = {q},
                                                !.input = Mapped(q.msgs)])
  /\ UNCHANGED <<slots, post, inbox, poll, thread, replies>>

(* _resolve_subject: nobody, an active participant, an inactive one, or the *)
(* resolver fails.                                                          *)
Entitled(q) == q.user \in {"nobody", "active"}
Resolve(c) ==
  /\ chat[c].at = "resolving"
  /\ \A q \in chat[c].asked :
       \/ Entitled(q) /\ Set(c, [chat[c] EXCEPT !.at = "waiting"])
       \/ ~Entitled(q) /\ EndChat(c, IF q.user = "fails" THEN 500 ELSE 403)
  /\ UNCHANGED <<slots, post, inbox, poll, thread, replies>>

(* TurnAdmissionLimiter.                                                    *)
Available == IF slots < MaxTurns THEN MaxTurns - slots ELSE 0
Acquire(n) == n <= Available /\ slots' = slots + n
Release(n) == slots' = slots - n

Admit(c) ==
  /\ chat[c].at = "waiting"
  /\ Acquire(1)
  /\ Set(c, [chat[c] EXCEPT !.at = "running"])
  /\ UNCHANGED <<post, inbox, poll, thread, replies>>

(* admission_wait_timeout_s.                                                *)
WaitedTooLong(c) ==
  /\ chat[c].at = "waiting"
  /\ EndChat(c, 503)
  /\ UNCHANGED <<slots, post, inbox, poll, thread, replies>>

(* _extract_assistant_text: the last text among all the messages a turn     *)
(* returns, the ones it was given included.                                 *)
LastText(earlier, own) == IF own # Silence THEN own ELSE earlier

Brought(input) == IF \E m \in input : m.role = "assistant" THEN Client ELSE Silence

Reply(c) ==
  /\ chat[c].at = "running"
  /\ \/ \E own \in {Silence, <<"chat", c>>} :
          Set(c, [NoAsk EXCEPT !.at = "ended", !.status = 200,
                               !.said = LastText(Brought(chat[c].input), own)])
     \/ EndChat(c, 500)
  /\ Release(1)
  /\ UNCHANGED <<post, inbox, poll, thread, replies>>

(* The request is cancelled while it waits or runs.                         *)
Drop(c) ==
  /\ chat[c].at \in {"waiting", "running"}
  /\ Release(IF chat[c].at = "running" THEN 1 ELSE 0)
  /\ EndChat(c, 499)
  /\ UNCHANGED <<post, inbox, poll, thread, replies>>

-----------------------------------------------------------------------------
(* Deliveries.  `got' is [channel, body, signed, parses, msgs]; a message   *)
(* is [id, from, text], what is malformed around it skipped.                *)
Put(p, r) == post' = [post EXCEPT ![p] = r]
ChannelOf(d) == IF d.channel = NoName THEN Legacy ELSE d.channel

(* One durable form for every channel's ids and senders.                    *)
Scoped(ch, k) == IF ch = Legacy THEN <<k>> ELSE <<ch, k>>
Native(key) == Last(key)

(* _extract_meta_messages: the messages with a usable id, by their places.  *)
(* Without a sender a message gets a conversation of its own.               *)
Conversation(m) == IF m.from = NoName THEN <<"unresolved", m.id>> ELSE m.from
Usable(msgs) == {i \in DOMAIN msgs : msgs[i].id # NoName}
FoundIn(d) == IF d.parses THEN Usable(d.msgs) ELSE {}
Ref(d, m) ==
  [channel |-> ChannelOf(d), key |-> Scoped(ChannelOf(d), m.id),
   conv |-> Scoped(ChannelOf(d), Conversation(m)), env |-> d.msgs, at |-> "pending"]

DeliveryRefusal(d) ==
  FirstRefusal(<< <<ChannelOf(d) \in Channels, 404>>, <<BodyFits(d.body), 413>>,
                  <<d.signed, 403>> >>)

(* _receive up to its first commit; the GET handshake touches nothing.      *)
Receive(p) ==
  /\ post[p].at = "new"
  /\ \E d \in (IF post[p].got = {} THEN Deliveries[p] ELSE post[p].got) :
       LET refused == DeliveryRefusal(d)
           begun == [post[p] EXCEPT !.got = {d}, !.next = 0, !.tries = @ + 1]
       IN  IF refused # 0 THEN Put(p, [begun EXCEPT !.at = "ended", !.status = refused])
           ELSE IF FoundIn(d) = {} THEN Put(p, [begun EXCEPT !.at = "ended", !.status = 200])
           ELSE Put(p, [begun EXCEPT !.at = "storing", !.next = Min(FoundIn(d))])
  /\ UNCHANGED <<slots, chat, inbox, poll, thread, replies>>

(* accept_inbound_message: committed, a duplicate, or failed; a commit may  *)
(* also fail after it took effect.                                          *)
Stored(ref) == \E i \in DOMAIN inbox : inbox[i].key = ref.key
AcksAtOnce(p, d) == TRUE
Further(p, d) == {i \in FoundIn(d) : i > post[p].next}
AllAccepted(p, d) == Further(p, d) = {}
AcceptedNext(p, d) ==
  IF AllAccepted(p, d) THEN Put(p, [post[p] EXCEPT !.at = "ended", !.status = 200])
                       ELSE Put(p, [post[p] EXCEPT !.next = Min(Further(p, d))])
Store(p) ==
  /\ post[p].at = "storing"
  /\ \E d \in post[p].got :
       LET ref == Ref(d, d.msgs[post[p].next])
           failed == Put(p, [post[p] EXCEPT !.at = "ended", !.status = 503])
       IN  \/ Stored(ref) /\ AcceptedNext(p, d) /\ UNCHANGED inbox
           \/ ~Stored(ref) /\ inbox' = Append(inbox, ref) /\ (AcceptedNext(p, d) \/ failed)
           \/ failed /\ UNCHANGED inbox
  /\ UNCHANGED <<slots, chat, poll, thread, replies>>

(* The provider delivers again what was not acknowledged, and now and then  *)
(* what was.                                                                *)
Redeliver(p) ==
  /\ post[p].at = "ended" /\ post[p].tries < MaxTries[p]
  /\ Put(p, [post[p] EXCEPT !.at = "new"])
  /\ UNCHANGED <<slots, chat, inbox, poll, thread, replies>>

-----------------------------------------------------------------------------
(* The worker.  It reserves slots, claims no more rows than it reserved and *)
(* gives back the rest.                                                     *)
Reservable == IF ClaimLimit < Available THEN ClaimLimit ELSE Available
Reserve ==
  /\ poll.at = "idle" /\ Reservable > 0
  /\ slots' = slots + Reservable
  /\ poll' = [IdleWorker EXCEPT !.at = "claiming", !.reserved = Reservable]
  /\ UNCHANGED <<chat, post, inbox, thread, replies>>

(* Oldest first within a conversation.  Only this worker leases, and it is  *)
(* idle when it claims: a leased row is one it let go of, whose lease may   *)
(* have run out.                                                            *)
Over(row) == row.at \in {"done", "failed"}
Claimable(i) ==
  /\ ~Over(inbox[i])
  /\ \A j \in DOMAIN inbox : j < i /\ inbox[j].conv = inbox[i].conv => Over(inbox[j])

(* A row claimed as often as the cap allows is failed instead of leased.    *)
LeaseRows(rows, spent) ==
  inbox' = [i \in DOMAIN inbox |->
              IF i \in spent THEN [inbox[i] EXCEPT !.at = "failed"]
              ELSE IF i \in rows THEN [inbox[i] EXCEPT !.at = "leased"] ELSE inbox[i]]

LeakOnFailure(rows) == IF rows = {} THEN UNCHANGED slots
                       ELSE Release(poll.reserved - Cardinality(rows))
Surplus(rows) == Release(poll.reserved - Cardinality(rows))
Hands(rows) ==
  /\ Surplus(rows)
  /\ poll' = [IdleWorker EXCEPT !.at = IF rows = {} THEN "idle" ELSE "running", !.rows = rows]

(* claim_available_outbox_work commits, and its answer arrives or not.  A   *)
(* claim that fails takes no row; one whose commit landed though it raised  *)
(* leaves its rows leased, and no slot is kept for them.                    *)
Claim ==
  /\ poll.at = "claiming"
  /\ \E rows \in SUBSET {i \in DOMAIN inbox : Claimable(i)} :
       /\ Cardinality(rows) <= poll.reserved
       /\ \E spent \in SUBSET {i \in rows : inbox[i].at /= "pending"} :
            /\ LeaseRows(rows, spent)
            /\ Hands(rows \ spent) \/ Hands({})
  /\ UNCHANGED <<chat, post, thread, replies>>

(* extract_turn: the first message of the stored envelope with the row's    *)
(* id, when it is a text with a sender.                                     *)
Sought(row) == {i \in DOMAIN row.env : row.env[i].id = Native(row.key)}
Extracted(row) == row.env[Min(Sought(row))]
HasTurn(row) ==
  Sought(row) # {} /\ Extracted(row).text /\ Extracted(row).from # NoName
AddressOf(row) == Address[Extracted(row).from]

Owed(row) == HasTurn(row) /\ AddressOf(row) \in Accounts

(* process_claimed_work.  However it ends the row's slot is released; the   *)
(* row stays leased when the lease was lost or the failure could not be     *)
(* recorded either (_record_failure).                                       *)
Unfinished == {"again", "failed", "leased"}
RowEnds(i, at) ==
  /\ inbox' = [inbox EXCEPT ![i].at = at]
  /\ poll' = IF poll.rows = {i} THEN IdleWorker ELSE [poll EXCEPT !.rows = @ \ {i}]
  /\ Release(1)
  /\ UNCHANGED <<chat, post>>

NoTurn(i) ==
  /\ i \in poll.rows
  /\ ~Owed(inbox[i])
  /\ RowEnds(i, "done")
  /\ UNCHANGED <<thread, replies>>

(* _persisted_reply: a committed reply is sent as it is, with no new turn.  *)
Committed(i) == \E r \in replies : r.row = i /\ r.said # Silence
Replay(i) ==
  /\ i \in poll.rows
  /\ Owed(inbox[i]) /\ Committed(i)
  /\ RowEnds(i, "done")
  /\ UNCHANGED <<thread, replies>>

(* The turn's reply is committed, then sent and the row completed; what     *)
(* fails on the way leaves the row unfinished, the thread saved or not.  A  *)
(* turn that says nothing commits nothing.                                  *)
RunTurn(i) ==
  /\ i \in poll.rows
  /\ Owed(inbox[i]) /\ ~Committed(i)
  /\ LET to == AddressOf(inbox[i]) IN
       \E own \in {Silence, <<"turn", i>>}, earlier \in {thread[to], Silence} :
         LET said == LastText(earlier, own)
             answered == replies' = replies \cup {[row |-> i, to |-> to, said |-> said]}
         IN  /\ thread' \in {thread, [thread EXCEPT ![to] = LastText(@, own)]}
             /\ \/ answered /\ RowEnds(i, "done")
                \/ said # Silence /\ answered /\ \E at \in Unfinished : RowEnds(i, at)
                \/ UNCHANGED replies /\ \E at \in Unfinished : RowEnds(i, at)

(* Any row, before or instead of a turn, or while a reply is sent again.    *)
TurnFails(i) ==
  /\ i \in poll.rows
  /\ \E at \in Unfinished : RowEnds(i, at)
  /\ UNCHANGED <<thread, replies>>

EntryStep ==
  \/ \E c \in Chats : \/ Request(c) \/ Resolve(c) \/ Admit(c)
                       \/ WaitedTooLong(c) \/ Reply(c) \/ Drop(c)
  \/ \E p \in Posts : Receive(p) \/ Store(p) \/ Redeliver(p)
  \/ Reserve \/ Claim
  \/ \E i \in poll.rows : NoTurn(i) \/ Replay(i) \/ RunTurn(i) \/ TurnFails(i)

EntrySpec == EntryInit /\ [][EntryStep]_entryVars

-----------------------------------------------------------------------------
(* Admission.  The limiter counts exactly the turns that run and the rows   *)
(* the worker holds: no slot is lost when a claim, a turn or a wait ends    *)
(* badly, none stays with a row that was let go of under its lease, and the *)
(* bound holds over both entries.                                           *)
SlotsAreTrue ==
  /\ slots = Cardinality({c \in Chats : chat[c].at = "running"})
             + poll.reserved + Cardinality(poll.rows)
  /\ slots <= MaxTurns

(* "Durably persist every valid message of a delivery, then acknowledge":   *)
(* an acknowledged delivery is in the inbox whole, whichever attempt stored *)
(* each message and whatever other deliveries held.                         *)
AckedIsKept ==
  \A p \in Posts : post[p].at = "ended" /\ post[p].status = 200 =>
    \A d \in post[p].got : d.parses =>
      \A m \in Range(d.msgs) : m.id # NoName =>
        \E i \in DOMAIN inbox : inbox[i].channel = ChannelOf(d) /\ Native(inbox[i].key) = m.id

(* No message is in the inbox twice, however often and in however many      *)
(* deliveries it came.                                                      *)
KeptOnce == \A i, j \in DOMAIN inbox : inbox[i].key = inbox[j].key => i = j

(* Nothing is in the inbox but what an authenticated delivery of a served   *)
(* channel brought, within the body limit.                                  *)
KeptIsGenuine ==
  \A i \in DOMAIN inbox : \E p \in Posts : \E d \in post[p].got :
    /\ d.signed /\ Total(d.body.chunks) <= MaxBody /\ ChannelOf(d) \in Channels
    /\ ChannelOf(d) = inbox[i].channel /\ d.msgs = inbox[i].env

(* Only senders share a conversation: a message of no known sender waits    *)
(* for no other and holds up no other.                                      *)
OwnConversation ==
  \A i, j \in DOMAIN inbox : i # j /\ inbox[i].conv = inbox[j].conv =>
    \E m \in Range(inbox[i].env) : Native(inbox[i].conv) = m.from /\ m.from # NoName

(* Each text a participant sent gets its turn, and one reply at most though *)
(* its row be claimed again; the reply goes to who sent it, on the channel  *)
(* it came by.                                                              *)
TurnsAreOwn ==
  /\ \A i \in DOMAIN inbox : inbox[i].at = "done" =>
       \E k \in DOMAIN inbox[i].env : LET m == inbox[i].env[k] IN
         /\ m.id = Native(inbox[i].key)
         /\ \A j \in DOMAIN inbox[i].env : inbox[i].env[j].id = m.id => k <= j
         /\ m.text /\ m.from # NoName /\ Address[m.from] \in Accounts =>
              \E r \in replies : r.row = i
  /\ \A r \in replies : r.to = Address[Native(inbox[r.row].conv)]
  /\ \A q, r \in replies : q.row = r.row => q = r

(* A chat request that got as far as waiting for its turn was let in by     *)
(* every check, for a runtime the operator named and a user who may.        *)
LetIn ==
  \A c \in Chats : chat[c].at \in {"waiting", "running"} =>
    \A q \in chat[c].asked : q.key # "wrong" /\ Total(q.body.chunks) <= MaxBody
                             /\ q.model \in Exposed /\ q.user \notin {"fails", "inactive"}

(* A request brings no instructions of its own into its turn.               *)
BringsNoOrders ==
  \A c \in Chats : chat[c].at \in {"waiting", "running"} =>
    \A m \in chat[c].input : m.role # "system" /\ ~(m.role = "assistant" /\ m.blank)

EntriesAreTrue ==
  /\ AckedIsKept /\ KeptOnce /\ KeptIsGenuine
  /\ OwnConversation /\ TurnsAreOwn
  /\ LetIn /\ BringsNoOrders

(* "successful provider send or empty agent reply uses a fenced completion  *)
(* transition": a turn that says nothing sends nothing.                     *)
EmptyReplyIsSilent == \A r \in replies : r.said \in {Silence, <<"turn", r.row>>}
=============================================================================
