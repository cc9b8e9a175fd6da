-------------------------------- MODULE Update --------------------------------
(***************************************************************************)
(* A client broadcasts software updates to its servers                     *)
(* (data/examples/update/main.rs, data/src/update.rs).                     *)
(*                                                                         *)
(* The client prepares each server with a datagram only that server can    *)
(* decrypt, then broadcasts the update in chunks encrypted with the key of *)
(* this update.  Servers never reply.  Each server reads the datagrams of  *)
(* a broadcast channel in order; one that was lost or garbled on the way   *)
(* to a server fails to decrypt there, which is as if it were not sent.    *)
(*                                                                         *)
(* The bytes of an update are represented by the update they belong to and *)
(* their positions.  The random update key is the number of the update.    *)
(* Encryption is external: a prepare datagram decrypts with the network    *)
(* key of the server it is for, an update datagram with its update key,    *)
(* and neither with any other key.                                         *)
(***************************************************************************)
EXTENDS Version, Sequences

CONSTANTS
  NumServers,                          \* servers.len()
  UPDATE_BYTES_SIZE,                   \* most bytes in a chunk
  UPDATE_BYTES_PROCESSING_THRESHOLD,   \* bytes sent between two long pauses
  current_version,                     \* the version every server runs
  Offers,                              \* inputs: the updates a client may send
  CHANNEL_SIZE,                        \* datagrams a slow server may be behind
  MaxUpdates,                          \* bound: calls of client::task
  None                                 \* Option::None

Servers == 1 .. NumServers

(* What a PrepareForUpdate says of an update besides its key.  server_ports *)
(* and signed are read by no code.                                         *)
Offer == [version : Version, update_len : Nat \ {0}]

ASSUME ServersAssumption == NumServers \in Nat
ASSUME SizesAssumption ==
  /\ UPDATE_BYTES_SIZE \in Nat \ {0}
  /\ UPDATE_BYTES_PROCESSING_THRESHOLD \in Nat \ {0}
ASSUME OffersAssumption == Offers \subseteq Offer /\ current_version \in Version
ASSUME ChannelAssumption == CHANNEL_SIZE \in Nat \ {0} /\ MaxUpdates \in Nat
ASSUME NoneIsNoInfo ==
  None \notin [key : Nat, byte_len : Nat, next_byte_offset : Nat]

VARIABLES
  pc,                           \* where client::task is
  sent,                         \* history: the offers sent, the last is current
  next_server,                  \* the server to prepare next
  update_byte_offset,
  next_threshold_byte_offset,
  inbox,                        \* per server: datagrams it has not read
  running,                      \* per server: its task has not ended
  active_update_info,           \* per server: Option<UpdateInfo>
  flash,                        \* history, per server: bytes of the active update
  flushed,                      \* history, per server: bytes behind by heavy work
  installed,                    \* history, per server: finished updates
  missed                        \* history, per server: updates it has not heard whole

clientVars == <<pc, sent, next_server, update_byte_offset, next_threshold_byte_offset>>
serverVars == <<active_update_info, flash, flushed, installed>>
busVars == <<inbox, running, missed>>
vars == <<clientVars, serverVars, busVars>>

Least(m, n) == IF m <= n THEN m ELSE n

update_key == Len(sent)
update_len == sent[update_key].update_len

Init ==
  /\ pc = "idle"
  /\ sent = <<>>
  /\ next_server = 1
  /\ update_byte_offset = 0
  /\ next_threshold_byte_offset = 0
  /\ inbox = [s \in Servers |-> <<>>]
  /\ running = [s \in Servers |-> TRUE]
  /\ active_update_info = [s \in Servers |-> None]
  /\ flash = [s \in Servers |-> {}]
  /\ flushed = [s \in Servers |-> 0]
  /\ installed = [s \in Servers |-> {}]
  /\ missed = [s \in Servers |-> {}]

------------------------------------------------------------------------------
(* The bus: tokio's broadcast channel.  Each server reads what it hears in *)
(* order.  One that is CHANNEL_SIZE datagrams behind gets an error from    *)
(* its next recv, which ends its task.                                     *)

Overrun(s) == Len(inbox[s]) = CHANNEL_SIZE

Send(datagram, addressees) ==
  \E heard \in SUBSET {s \in Servers : running[s]} :
    /\ inbox' = [s \in Servers |->
         IF s \notin heard THEN inbox[s]
         ELSE IF Overrun(s) THEN <<>>
         ELSE Append(inbox[s], datagram)]
    /\ running' = [s \in Servers |-> running[s] /\ ~(s \in heard /\ Overrun(s))]
    /\ missed' = [s \in Servers |->
         missed[s] \cup {k \in 1 .. update_key :
           \/ k = update_key /\ s \in addressees \ heard
           \/ s \in heard /\ Overrun(s)}]

------------------------------------------------------------------------------
(* Client *)

(* client::task is called with a new update and makes a new key. *)
ClientStart ==
  /\ pc = "idle"
  /\ Len(sent) < MaxUpdates
  /\ \E offer \in Offers : sent' = Append(sent, offer)
  /\ next_server' = 1
  /\ pc' = "prepare"
  /\ UNCHANGED <<update_byte_offset, next_threshold_byte_offset, serverVars, busVars>>

(* One turn of the loop of prepare_servers_for_update, up to its sleep. *)
PrepareServer ==
  /\ pc = "prepare"
  /\ next_server <= NumServers
  /\ Send([kind |-> "prepare", server |-> next_server, key |-> update_key,
           offer |-> sent[update_key]],
          {next_server})
  /\ next_server' = next_server + 1
  /\ UNCHANGED <<pc, sent, update_byte_offset, next_threshold_byte_offset, serverVars>>

(* The loop ends and update_servers begins. *)
AllPreparedUncapped ==
  /\ pc = "prepare"
  /\ next_server > NumServers
  /\ pc' = "update"
  /\ update_byte_offset' = 0
  /\ next_threshold_byte_offset' = UPDATE_BYTES_PROCESSING_THRESHOLD
  /\ UNCHANGED <<sent, next_server, serverVars, busVars>>

AllPrepared ==
  /\ pc = "prepare"
  /\ next_server > NumServers
  /\ pc' = "update"
  /\ update_byte_offset' = 0
  /\ next_threshold_byte_offset' = Least(UPDATE_BYTES_PROCESSING_THRESHOLD, update_len)
  /\ UNCHANGED <<sent, next_server, serverVars, busVars>>

(* One turn of the loop of update_servers, up to its sleep.  The history   *)
(* field pause of the datagram is the sleep that follows it.               *)
ChunkEndAtThreshold == next_threshold_byte_offset

ChunkEndPastThreshold == Least(update_byte_offset + UPDATE_BYTES_SIZE, update_len)

ChunkEnd == Least(update_byte_offset + UPDATE_BYTES_SIZE, next_threshold_byte_offset)

UpdateServers ==
  /\ pc = "update"
  /\ update_byte_offset < update_len
  /\ LET to_update_byte_offset == ChunkEnd
         reached == to_update_byte_offset = next_threshold_byte_offset
     IN  /\ Send([kind |-> "update", key |-> update_key,
                  byte_offset |-> update_byte_offset,
                  len |-> to_update_byte_offset - update_byte_offset,
                  pause |-> IF reached THEN "long" ELSE "short"],
                 Servers)
         /\ next_threshold_byte_offset' =
              IF reached
                THEN Least(next_threshold_byte_offset + UPDATE_BYTES_PROCESSING_THRESHOLD,
                           update_len)
                ELSE next_threshold_byte_offset
         /\ update_byte_offset' = to_update_byte_offset
  /\ UNCHANGED <<pc, sent, next_server, serverVars>>

(* The last sleep is over and client::task returns. *)
ClientDone ==
  /\ pc = "update"
  /\ update_byte_offset >= update_len
  /\ pc' = "idle"
  /\ UNCHANGED <<sent, next_server, update_byte_offset, next_threshold_byte_offset,
                 serverVars, busVars>>

------------------------------------------------------------------------------
(* Server *)

(* activate_update_if_new_version *)
Activated(prepare) ==
  IF Newer(prepare.offer.version, current_version)
    THEN [key |-> prepare.key, byte_len |-> prepare.offer.update_len, next_byte_offset |-> 0]
    ELSE None

Abandon(s) ==
  /\ active_update_info' = [active_update_info EXCEPT ![s] = None]
  /\ UNCHANGED <<flash, flushed, installed>>

(* process_active_update and what task does with its result. *)
ProcessAcceptingGaps(s, update) ==
  LET info == active_update_info[s]
      next == update.byte_offset + update.len
      bytes == flash[s] \cup ({update.key} \X (update.byte_offset .. next - 1))
  IN  /\ active_update_info' = [active_update_info EXCEPT ![s] =
           IF next = info.byte_len THEN None
           ELSE [info EXCEPT !.next_byte_offset = next]]
      /\ flash' = [flash EXCEPT ![s] = bytes]
      /\ installed' = [installed EXCEPT ![s] =
           IF next = info.byte_len
             THEN @ \cup {[key |-> info.key, bytes |-> bytes]} ELSE @]
      /\ UNCHANGED flushed

ProcessActiveUpdate(s, update) ==
  LET info == active_update_info[s]
      next == info.next_byte_offset + update.len
      bytes == flash[s] \cup ({update.key} \X (update.byte_offset .. next - 1))
  IN  IF update.byte_offset # info.next_byte_offset
        THEN Abandon(s)
        ELSE /\ active_update_info' = [active_update_info EXCEPT ![s] =
                  IF next = info.byte_len THEN None
                  ELSE [info EXCEPT !.next_byte_offset = next]]
             /\ flash' = [flash EXCEPT ![s] = bytes]
             /\ flushed' = [flushed EXCEPT ![s] =
                  IF next = info.byte_len \/ next % UPDATE_BYTES_PROCESSING_THRESHOLD = 0
                    THEN next ELSE @]
             /\ installed' = [installed EXCEPT ![s] =
                  IF next = info.byte_len
                    THEN @ \cup {[key |-> info.key, bytes |-> bytes]} ELSE @]

(* The prepare branch of task. *)
ProcessPrepareWhenIdle(s, prepare) ==
  IF Activated(prepare) # None /\ active_update_info[s] = None
    THEN /\ active_update_info' = [active_update_info EXCEPT ![s] = Activated(prepare)]
         /\ flash' = [flash EXCEPT ![s] = {}]
         /\ flushed' = [flushed EXCEPT ![s] = 0]
         /\ UNCHANGED installed
    ELSE UNCHANGED serverVars

ProcessPrepare(s, prepare) ==
  IF Activated(prepare) # None
    THEN /\ active_update_info' = [active_update_info EXCEPT ![s] = Activated(prepare)]
         /\ flash' = [flash EXCEPT ![s] = {}]
         /\ flushed' = [flushed EXCEPT ![s] = 0]
         /\ UNCHANGED installed
    ELSE UNCHANGED serverVars

(* One turn of the loop of server::task: which cipher opens the datagram   *)
(* decides what it is.                                                     *)
ServerReceive(s) ==
  /\ running[s]
  /\ inbox[s] # <<>>
  /\ inbox' = [inbox EXCEPT ![s] = Tail(@)]
  /\ LET datagram == Head(inbox[s])
     IN  \/ /\ datagram.kind = "update"
            /\ active_update_info[s] # None
            /\ active_update_info[s].key = datagram.key
            /\ ProcessActiveUpdate(s, datagram)
         \/ /\ datagram.kind = "prepare"
            /\ datagram.server = s
            /\ ProcessPrepare(s, datagram)
         \/ /\ ~ \/ /\ datagram.kind = "update"
                    /\ active_update_info[s] # None
                    /\ active_update_info[s].key = datagram.key
                 \/ datagram.kind = "prepare" /\ datagram.server = s
            /\ UNCHANGED serverVars
  /\ UNCHANGED <<clientVars, running, missed>>

------------------------------------------------------------------------------

Next ==
  \/ ClientStart
  \/ PrepareServer
  \/ AllPrepared
  \/ UpdateServers
  \/ ClientDone
  \/ \E s \in Servers : ServerReceive(s)

(* The client's sleeps end and a server whose recv is ready runs. *)
Fairness ==
  /\ WF_vars(PrepareServer \/ AllPrepared \/ UpdateServers \/ ClientDone)
  /\ \A s \in Servers : WF_vars(ServerReceive(s))

Spec == Init /\ [][Next]_vars /\ Fairness

------------------------------------------------------------------------------
(* Properties *)

UpdateInfo == [key : Nat, byte_len : Nat, next_byte_offset : Nat]

(* The bytes of an Update are a heapless Vec of at most UPDATE_BYTES_SIZE; *)
(* to make a longer one panics.                                            *)
Datagram ==
  [kind : {"prepare"}, server : Servers, key : Nat, offer : Offers]
    \cup [kind : {"update"}, key : Nat, byte_offset : Nat, len : 0 .. UPDATE_BYTES_SIZE,
         pause : {"long", "short"}]

(* Every variable holds a value the code can hold. *)
TypeOK ==
  /\ pc \in {"idle", "prepare", "update"}
  /\ sent \in Seq(Offers)
  /\ next_server \in 1 .. NumServers + 1
  /\ update_byte_offset \in Nat
  /\ next_threshold_byte_offset \in Nat
  /\ inbox \in [Servers -> Seq(Datagram)]
  /\ running \in [Servers -> BOOLEAN]
  /\ active_update_info \in [Servers -> UpdateInfo \cup {None}]
  /\ flash \in [Servers -> SUBSET (Nat \X Nat)]
  /\ flushed \in [Servers -> Nat]
  /\ installed \in [Servers -> SUBSET [key : Nat, bytes : SUBSET (Nat \X Nat)]]
  /\ missed \in [Servers -> SUBSET Nat]

Image(k) == {k} \X (0 .. sent[k].update_len - 1)

(* A server only finishes with the whole image of one update, whatever it  *)
(* missed and however often the client started over (server::task checks   *)
(* byte offsets and the total length, never what it has).                  *)
InstallsWholeImage ==
  \A s \in Servers : \A update \in installed[s] : update.bytes = Image(update.key)

(* A server only takes part in an update, and only finishes one, to a      *)
(* version that follows its own in the order of semver.org: a pre-release  *)
(* of the version it runs is not newer (activate_update_if_new_version).   *)
OnlyNewerIsInstalled ==
  \A s \in Servers :
    /\ active_update_info[s] # None =>
         Precedes(current_version, sent[active_update_info[s].key].version)
    /\ \A update \in installed[s] : Precedes(current_version, sent[update.key].version)

(* The server's buffer of UPDATE_BYTES_PROCESSING_THRESHOLD bytes is never *)
(* overrun (update/main.rs: "This value must not be exceeded"): it does    *)
(* its heavy work before more than that has come in.                       *)
BufferSuffices ==
  \A s \in Servers :
    active_update_info[s] # None =>
      active_update_info[s].next_byte_offset - flushed[s] <= UPDATE_BYTES_PROCESSING_THRESHOLD

(* The client pauses for long exactly after the chunks that make a server  *)
(* do its heavy work: its running threshold agrees with the server's       *)
(* remainder test for every length of the update.                          *)
PausesForHeavyWork ==
  \A s \in Servers : \A i \in DOMAIN inbox[s] :
    LET datagram == inbox[s][i]
        next == datagram.byte_offset + datagram.len
    IN  datagram.kind = "update" =>
          (datagram.pause = "long" <=>
             \/ next = sent[datagram.key].update_len
             \/ next % UPDATE_BYTES_PROCESSING_THRESHOLD = 0)

------------------------------------------------------------------------------
(* The inductive invariant behind the safety properties *)

(* The first threshold after a byte offset *)
ThresholdAfter(offset, len) ==
  Least((offset \div UPDATE_BYTES_PROCESSING_THRESHOLD + 1) * UPDATE_BYTES_PROCESSING_THRESHOLD,
        len)

(* The client's threshold is the first after its offset, until the end. *)
ClientInv ==
  /\ pc # "idle" => sent # <<>>
  /\ pc = "update" =>
       /\ update_byte_offset <= update_len
       /\ update_byte_offset < update_len =>
            next_threshold_byte_offset = ThresholdAfter(update_byte_offset, update_len)

(* An update datagram has bytes, up to the first threshold after its       *)
(* offset at most, and its pause tells whether it reaches that threshold.  *)
ChunkOf(datagram, len) ==
  LET next == datagram.byte_offset + datagram.len
      threshold == ThresholdAfter(datagram.byte_offset, len)
  IN  /\ datagram.byte_offset < next
      /\ next <= threshold
      /\ datagram.pause = "long" <=> next = threshold

ChunksInv ==
  \A s \in Servers : \A i \in DOMAIN inbox[s] :
    inbox[s][i].kind = "update" =>
      /\ inbox[s][i].key \in DOMAIN sent
      /\ ChunkOf(inbox[s][i], sent[inbox[s][i].key].update_len)

(* A prepare datagram describes its update. *)
PreparesInv ==
  \A s \in Servers : \A i \in DOMAIN inbox[s] :
    inbox[s][i].kind = "prepare" =>
      /\ inbox[s][i].key \in DOMAIN sent
      /\ inbox[s][i].offer = sent[inbox[s][i].key]

(* A server that takes part in an update has its bytes up to the next one. *)
ActiveInv ==
  \A s \in Servers :
    LET info == active_update_info[s]
    IN  info # None =>
          /\ info.key \in DOMAIN sent
          /\ info.byte_len = sent[info.key].update_len
          /\ flash[s] = {info.key} \X (0 .. info.next_byte_offset - 1)
          /\ info.next_byte_offset - flushed[s] \in 0 .. UPDATE_BYTES_PROCESSING_THRESHOLD - 1
          /\ flushed[s] % UPDATE_BYTES_PROCESSING_THRESHOLD = 0
          /\ Newer(sent[info.key].version, current_version)

InstalledInv ==
  \A s \in Servers : \A update \in installed[s] :
    /\ update.key \in DOMAIN sent /\ update.bytes = Image(update.key)
    /\ Newer(sent[update.key].version, current_version)

IInv == TypeOK /\ ClientInv /\ PreparesInv /\ ChunksInv /\ ActiveInv /\ InstalledInv

------------------------------------------------------------------------------
(* What a server has heard and not read yet *)

HasInstalled(s, k) == \E update \in installed[s] : update.key = k

(* A server that has read all it heard of a finished update to a newer     *)
(* version, and missed none of it, has installed it, whatever it missed of *)
(* other updates: it is never left waiting, or out of step, with nothing   *)
(* to come (servers do not reply, so nobody would find out).               *)
ReadIsInstalled ==
  \A s \in Servers : \A k \in DOMAIN sent :
    /\ k < update_key \/ pc = "idle"
    /\ inbox[s] = <<>>
    /\ k \notin missed[s]
    /\ Newer(sent[k].version, current_version)
    => HasInstalled(s, k)

IsChunk(datagram, k) == datagram.kind = "update" /\ datagram.key = k

IsPrepare(datagram, s, k) ==
  datagram.kind = "prepare" /\ datagram.server = s /\ datagram.key = k

Pending(box, s, k) == \E i \in DOMAIN box : IsPrepare(box[i], s, k)

End(datagram) == datagram.byte_offset + datagram.len

(* One update comes after the other, and its chunks after its prepares. *)
Ordered(box) ==
  \A i, j \in DOMAIN box :
    i < j => \/ box[i].key < box[j].key
             \/ box[i].key = box[j].key /\ (box[i].kind = "update" => box[j].kind = "update")

(* The chunks of an update in a box lead from one byte offset to another. *)
Leads(box, k, from, to) ==
  /\ (\A i \in DOMAIN box : ~IsChunk(box[i], k)) => from = to
  /\ \A i \in DOMAIN box : IsChunk(box[i], k) =>
       /\ i - 1 \notin DOMAIN box \/ ~IsChunk(box[i - 1], k) => box[i].byte_offset = from
       /\ i + 1 \notin DOMAIN box \/ ~IsChunk(box[i + 1], k) => End(box[i]) = to
       /\ i + 1 \in DOMAIN box /\ IsChunk(box[i + 1], k) =>
            box[i + 1].byte_offset = End(box[i])

(* How far the client is with an update, and whether it has prepared a     *)
(* server for it.                                                          *)
SentUpTo(k) ==
  IF k < update_key \/ pc = "idle" THEN sent[k].update_len
  ELSE IF pc = "update" THEN update_byte_offset ELSE 0

Asked(s, k) == k < update_key \/ pc # "prepare" \/ s < next_server

OrderInv ==
  \A s \in Servers :
    /\ Ordered(inbox[s])
    /\ \A i \in DOMAIN inbox[s] :
         /\ inbox[s][i].key <= update_key
         /\ pc = "prepare" => ~IsChunk(inbox[s][i], update_key)
         /\ active_update_info[s] # None => active_update_info[s].key <= inbox[s][i].key

(* An update is still to be begun by a server, under way, or finished. *)
OnItsWay(s, k) ==
  \/ Pending(inbox[s], s, k) /\ Leads(inbox[s], k, 0, SentUpTo(k))
  \/ /\ ~Pending(inbox[s], s, k)
     /\ active_update_info[s] # None
     /\ active_update_info[s].key = k
     /\ Leads(inbox[s], k, active_update_info[s].next_byte_offset, SentUpTo(k))
  \/ HasInstalled(s, k) /\ SentUpTo(k) = sent[k].update_len

StreamInv ==
  \A s \in Servers : \A k \in DOMAIN sent :
    k \notin missed[s] /\ Newer(sent[k].version, current_version) /\ Asked(s, k) =>
      OnItsWay(s, k)

(* A server that takes part in an update is not at its end. *)
UnfinishedInv ==
  \A s \in Servers :
    active_update_info[s] # None =>
      active_update_info[s].next_byte_offset < active_update_info[s].byte_len

HeardInv == OrderInv /\ StreamInv /\ UnfinishedInv

------------------------------------------------------------------------------

(* A server that hears all of an update to a newer version finishes it,    *)
(* even when it missed parts of the update before.                         *)
HeardIsInstalled ==
  \A s \in Servers, k \in 1 .. MaxUpdates :
    (pc = "idle" /\ Len(sent) = k)
      ~> k \in DOMAIN sent /\ \/ k \in missed[s]
                              \/ ~Newer(sent[k].version, current_version)
                              \/ HasInstalled(s, k)

==============================================================================
