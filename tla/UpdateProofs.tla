----------------------------- MODULE UpdateProofs -----------------------------
(***************************************************************************)
(* Software update, for every number of servers, size of chunks and        *)
(* thresholds, and every loss (data/examples/update/main.rs).              *)
(***************************************************************************)
EXTENDS Update, TLAPS

(* The smaller of two numbers. *)
LEMMA LeastFacts ==
  ASSUME NEW m \in Nat, NEW n \in Nat
  PROVE  Least(m, n) \in Nat /\ Least(m, n) <= m /\ Least(m, n) <= n
BY DEF Least

------------------------------------------------------------------------------
(* Thresholds *)

LEMMA DivMod ==
  ASSUME NEW n \in Nat
  PROVE  /\ n \div UPDATE_BYTES_PROCESSING_THRESHOLD \in Nat
         /\ n % UPDATE_BYTES_PROCESSING_THRESHOLD \in 0 .. UPDATE_BYTES_PROCESSING_THRESHOLD - 1
         /\ n = (n \div UPDATE_BYTES_PROCESSING_THRESHOLD) * UPDATE_BYTES_PROCESSING_THRESHOLD
                  + (n % UPDATE_BYTES_PROCESSING_THRESHOLD)
BY SizesAssumption

LEMMA DivModOf ==
  ASSUME NEW q \in Nat, NEW r \in 0 .. UPDATE_BYTES_PROCESSING_THRESHOLD - 1
  PROVE  /\ (q * UPDATE_BYTES_PROCESSING_THRESHOLD + r) \div UPDATE_BYTES_PROCESSING_THRESHOLD = q
         /\ (q * UPDATE_BYTES_PROCESSING_THRESHOLD + r) % UPDATE_BYTES_PROCESSING_THRESHOLD = r
BY SizesAssumption

(* The multiples of the threshold around an offset *)
LEMMA Block ==
  ASSUME NEW offset \in Nat
  PROVE  \E q \in Nat, below \in Nat :
           /\ below = q * UPDATE_BYTES_PROCESSING_THRESHOLD
           /\ below <= offset /\ offset < below + UPDATE_BYTES_PROCESSING_THRESHOLD
           /\ \A n \in Nat :
                below <= n /\ n < below + UPDATE_BYTES_PROCESSING_THRESHOLD =>
                  /\ n % UPDATE_BYTES_PROCESSING_THRESHOLD = n - below
                  /\ \A len \in Nat : ThresholdAfter(n, len) =
                       Least(below + UPDATE_BYTES_PROCESSING_THRESHOLD, len)
<1> DEFINE T == UPDATE_BYTES_PROCESSING_THRESHOLD
           q == offset \div T
           below == q * T
<1>1. T \in Nat \ {0}
  BY SizesAssumption
<1>2. q \in Nat /\ offset = below + (offset % T) /\ offset % T \in 0 .. T - 1
  BY DivMod
<1> HIDE DEF q
<1>3. below \in Nat /\ (q + 1) * T = below + T
  BY <1>1, <1>2
<1>4. ASSUME NEW n \in Nat, below <= n, n < below + T
      PROVE  n % T = n - below /\ n \div T = q
  <2>1. n - below \in 0 .. T - 1
    BY <1>1, <1>3, <1>4
  <2>2. n = q * T + (n - below)
    BY <1>3
  <2> HIDE DEF below
  <2> QED BY <1>2, <2>1, <2>2, DivModOf
<1>5. ASSUME NEW n \in Nat, below <= n, n < below + T, NEW len \in Nat
      PROVE  ThresholdAfter(n, len) = Least(below + T, len)
  BY <1>3, <1>4, <1>5 DEF ThresholdAfter
<1>6. below <= offset /\ offset < below + T
  BY <1>1, <1>2, <1>3
<1>7. below = q * UPDATE_BYTES_PROCESSING_THRESHOLD
  OBVIOUS
<1> HIDE DEF below
<1> QED BY <1>2, <1>3, <1>4, <1>5, <1>6, <1>7

(* The first threshold after an offset that is not the end *)
LEMMA ThresholdFacts ==
  ASSUME NEW offset \in Nat, NEW len \in Nat, offset < len
  PROVE  /\ ThresholdAfter(offset, len) \in Nat
         /\ offset < ThresholdAfter(offset, len)
         /\ ThresholdAfter(offset, len) <= len
<1>1. PICK q \in Nat, below \in Nat :
        /\ below <= offset /\ offset < below + UPDATE_BYTES_PROCESSING_THRESHOLD
        /\ ThresholdAfter(offset, len) = Least(below + UPDATE_BYTES_PROCESSING_THRESHOLD, len)
  BY Block
<1> QED BY <1>1, SizesAssumption DEF Least

(* What lies before that threshold has the same one, and that threshold is *)
(* the end or a multiple.                                                  *)
LEMMA ThresholdSteps ==
  ASSUME NEW offset \in Nat, NEW next \in Nat, NEW len \in Nat,
         offset < next, next <= ThresholdAfter(offset, len), offset < len
  PROVE  /\ next < ThresholdAfter(offset, len) =>
              ThresholdAfter(next, len) = ThresholdAfter(offset, len)
         /\ next = ThresholdAfter(offset, len) /\ next < len =>
              ThresholdAfter(next, len) = Least(next + UPDATE_BYTES_PROCESSING_THRESHOLD, len)
         /\ next = ThresholdAfter(offset, len) <=>
              next = len \/ next % UPDATE_BYTES_PROCESSING_THRESHOLD = 0
<1> DEFINE T == UPDATE_BYTES_PROCESSING_THRESHOLD
<1>1. PICK q \in Nat, below \in Nat :
        /\ below = q * T
        /\ below <= offset /\ offset < below + T
        /\ \A n \in Nat :
             below <= n /\ n < below + T =>
               /\ n % T = n - below
               /\ \A l \in Nat : ThresholdAfter(n, l) = Least(below + T, l)
  BY Block
<1>2. T \in Nat \ {0}
  BY SizesAssumption
<1>3. ThresholdAfter(offset, len) = Least(below + T, len)
  BY <1>1
<1>4. (below + T) % T = 0 /\ \A l \in Nat : ThresholdAfter(below + T, l) = Least(below + T + T, l)
  <2>1. below + T = (q + 1) * T + 0 /\ (q + 1) \in Nat /\ 0 \in 0 .. T - 1
    BY <1>1, <1>2
  <2>2. (below + T) % T = 0 /\ (below + T) \div T = q + 1
    BY <2>1, DivModOf
  <2>3. (q + 1 + 1) * T = below + T + T
    BY <1>1, <1>2
  <2> QED BY <2>2, <2>3 DEF ThresholdAfter
<1>5. CASE next < below + T
  <2>1. next % T = next - below /\ ThresholdAfter(next, len) = Least(below + T, len)
    BY <1>1, <1>5
  <2> QED BY <1>1, <1>2, <1>3, <1>5, <2>1 DEF Least
<1>6. CASE next = below + T
  BY <1>1, <1>2, <1>3, <1>4, <1>6 DEF Least
<1> QED BY <1>1, <1>2, <1>3, <1>5, <1>6 DEF Least

(* Bytes since the last multiple, before and after a chunk *)
LEMMA FlushFacts ==
  ASSUME NEW offset \in Nat, NEW flush \in Nat, NEW next \in Nat, NEW len \in Nat,
         flush % UPDATE_BYTES_PROCESSING_THRESHOLD = 0,
         offset - flush \in 0 .. UPDATE_BYTES_PROCESSING_THRESHOLD - 1,
         offset < next, next <= ThresholdAfter(offset, len)
  PROVE  \/ next % UPDATE_BYTES_PROCESSING_THRESHOLD = 0
         \/ next - flush \in 0 .. UPDATE_BYTES_PROCESSING_THRESHOLD - 1
<1> DEFINE T == UPDATE_BYTES_PROCESSING_THRESHOLD
           q == flush \div T
<1>1. T \in Nat \ {0}
  BY SizesAssumption
<1>2. q \in Nat /\ flush = q * T
  BY <1>1, DivMod
<1> HIDE DEF q
<1>3. offset = q * T + (offset - flush)
  BY <1>2
<1>4. offset \div T = q
  BY <1>2, <1>3, DivModOf
<1>5. (q + 1) * T = flush + T
  BY <1>1, <1>2
<1>6. next <= flush + T
  BY <1>1, <1>4, <1>5 DEF ThresholdAfter, Least
<1>7. (flush + T) % T = 0
  <2>1. flush + T = (q + 1) * T + 0 /\ q + 1 \in Nat /\ 0 \in 0 .. T - 1
    BY <1>1, <1>2, <1>5
  <2> QED BY <2>1, DivModOf
<1> QED BY <1>1, <1>6, <1>7

------------------------------------------------------------------------------
(* The client has an update at hand whenever it sends. *)
LEMMA CurrentOffer ==
  ASSUME sent \in Seq(Offers), sent # <<>>
  PROVE  /\ update_key \in Nat /\ update_key \in DOMAIN sent
         /\ sent[update_key] \in Offers
         /\ update_len \in Nat
<1>1. /\ Len(sent) \in Nat \ {0}
      /\ DOMAIN sent = 1 .. Len(sent)
  OBVIOUS
<1>2. update_key \in DOMAIN sent /\ sent[update_key] \in Offers
  BY <1>1 DEF update_key
<1>3. sent[update_key].update_len \in Nat
  BY <1>2, OffersAssumption DEF Offer
<1> QED BY <1>1, <1>2, <1>3 DEF update_len, update_key

(* A broadcast adds the datagram to some inboxes and empties others. *)
LEMMA SendFacts ==
  ASSUME inbox \in [Servers -> Seq(Datagram)], running \in [Servers -> BOOLEAN],
         missed \in [Servers -> SUBSET Nat], update_key \in Nat,
         NEW datagram \in Datagram, NEW addressees, Send(datagram, addressees)
  PROVE  /\ inbox' \in [Servers -> Seq(Datagram)]
         /\ running' \in [Servers -> BOOLEAN]
         /\ missed' \in [Servers -> SUBSET Nat]
         /\ \A s \in Servers : \A i \in DOMAIN inbox'[s] :
              inbox'[s][i] = datagram \/ (i \in DOMAIN inbox[s] /\ inbox'[s][i] = inbox[s][i])
<1>1. PICK heard \in SUBSET {s \in Servers : running[s]} :
        /\ inbox' = [s \in Servers |->
             IF s \notin heard THEN inbox[s]
             ELSE IF Overrun(s) THEN <<>>
             ELSE Append(inbox[s], datagram)]
        /\ running' = [s \in Servers |-> running[s] /\ ~(s \in heard /\ Overrun(s))]
        /\ missed' = [s \in Servers |->
             missed[s] \cup {k \in 1 .. update_key :
               \/ k = update_key /\ s \in addressees \ heard
               \/ s \in heard /\ Overrun(s)}]
  BY DEF Send
<1>2. ASSUME NEW s \in Servers
      PROVE  /\ inbox'[s] \in Seq(Datagram)
             /\ \A i \in DOMAIN inbox'[s] :
                  \/ inbox'[s][i] = datagram
                  \/ i \in DOMAIN inbox[s] /\ inbox'[s][i] = inbox[s][i]
  <2>1. inbox[s] \in Seq(Datagram)
    BY <1>2
  <2>2. CASE s \notin heard
    BY <1>1, <1>2, <2>1, <2>2
  <2>3. CASE s \in heard /\ Overrun(s)
    <3>1. inbox'[s] = <<>>
      BY <1>1, <1>2, <2>3
    <3> QED BY <3>1
  <2>4. CASE s \in heard /\ ~Overrun(s)
    <3>1. inbox'[s] = Append(inbox[s], datagram)
      BY <1>1, <1>2, <2>4
    <3> QED BY <2>1, <3>1
  <2> QED BY <2>2, <2>3, <2>4
<1>3. inbox' \in [Servers -> Seq(Datagram)]
  <2>1. inbox' = [s \in Servers |-> inbox'[s]]
    BY <1>1
  <2> QED BY <1>2, <2>1
<1>4. running' \in [Servers -> BOOLEAN]
  BY <1>1
<1>5. missed' \in [Servers -> SUBSET Nat]
  BY <1>1
<1> QED BY <1>2, <1>3, <1>4, <1>5

(* The parts of the invariant that only depend on what a client's step     *)
(* leaves alone, when it sends a datagram that fits the current update.    *)
LEMMA SendKeepsInv ==
  ASSUME IInv, pc # "idle", NEW datagram \in Datagram, NEW addressees,
         Send(datagram, addressees), UNCHANGED <<sent, serverVars>>,
         datagram.key = update_key,
         datagram.kind = "prepare" => datagram.offer = sent[update_key],
         datagram.kind = "update" => ChunkOf(datagram, update_len)
  PROVE  /\ inbox' \in [Servers -> Seq(Datagram)]
         /\ running' \in [Servers -> BOOLEAN]
         /\ missed' \in [Servers -> SUBSET Nat]
         /\ PreparesInv' /\ ChunksInv' /\ ActiveInv' /\ InstalledInv'
<1>1. update_key \in Nat /\ update_key \in DOMAIN sent
  BY CurrentOffer DEF IInv, TypeOK, ClientInv
<1>2. /\ inbox' \in [Servers -> Seq(Datagram)]
      /\ running' \in [Servers -> BOOLEAN]
      /\ missed' \in [Servers -> SUBSET Nat]
      /\ \A s \in Servers : \A i \in DOMAIN inbox'[s] :
           inbox'[s][i] = datagram \/ (i \in DOMAIN inbox[s] /\ inbox'[s][i] = inbox[s][i])
  BY <1>1, SendFacts DEF IInv, TypeOK
<1>3. PreparesInv'
  <2> SUFFICES ASSUME NEW s \in Servers, NEW i \in DOMAIN inbox'[s],
                      inbox'[s][i].kind = "prepare"
               PROVE  /\ inbox'[s][i].key \in DOMAIN sent
                      /\ inbox'[s][i].offer = sent[inbox'[s][i].key]
    BY DEF PreparesInv
  <2>1. CASE inbox'[s][i] = datagram
    BY <1>1, <2>1
  <2>2. CASE i \in DOMAIN inbox[s] /\ inbox'[s][i] = inbox[s][i]
    BY <2>2 DEF IInv, PreparesInv
  <2> QED BY <1>2, <2>1, <2>2
<1>4. ChunksInv'
  <2> SUFFICES ASSUME NEW s \in Servers, NEW i \in DOMAIN inbox'[s],
                      inbox'[s][i].kind = "update"
               PROVE  /\ inbox'[s][i].key \in DOMAIN sent
                      /\ ChunkOf(inbox'[s][i], sent[inbox'[s][i].key].update_len)
    BY DEF ChunksInv, ChunkOf
  <2>1. CASE inbox'[s][i] = datagram
    BY <1>1, <2>1 DEF update_len
  <2>2. CASE i \in DOMAIN inbox[s] /\ inbox'[s][i] = inbox[s][i]
    BY <2>2 DEF IInv, ChunksInv
  <2> QED BY <1>2, <2>1, <2>2
<1>5. ActiveInv' /\ InstalledInv'
  BY DEF IInv, ActiveInv, InstalledInv, Image, serverVars
<1> QED BY <1>2, <1>3, <1>4, <1>5

(* The invariant carries over to a longer history of offers. *)
LEMMA StartKeepsInv ==
  ASSUME IInv, ClientStart
  PROVE  IInv'
<1>1. PICK offer \in Offers : sent' = Append(sent, offer)
  BY DEF ClientStart
<1>2. /\ sent \in Seq(Offers) /\ sent' \in Seq(Offers) /\ sent' # <<>>
      /\ \A k \in DOMAIN sent : k \in DOMAIN sent' /\ sent'[k] = sent[k]
  <2>1. sent \in Seq(Offers)
    BY DEF IInv, TypeOK
  <2>2. /\ sent' \in Seq(Offers) /\ Len(sent') = Len(sent) + 1
        /\ DOMAIN sent = 1 .. Len(sent) /\ DOMAIN sent' = 1 .. Len(sent')
        /\ Len(sent) \in Nat
        /\ \A k \in 1 .. Len(sent) : sent'[k] = sent[k]
    BY <1>1, <2>1
  <2>3. sent' # <<>>
    BY <2>2
  <2> QED BY <2>1, <2>2, <2>3
<1>3. UNCHANGED <<inbox, active_update_info, flash, flushed, installed>>
  BY DEF ClientStart, serverVars, busVars
<1>4. TypeOK'
  BY <1>2, ServersAssumption DEF ClientStart, IInv, TypeOK, serverVars, busVars
<1>5. ClientInv'
  BY <1>2 DEF ClientStart, ClientInv
<1>6. PreparesInv' /\ ActiveInv' /\ InstalledInv'
  BY <1>2, <1>3 DEF IInv, PreparesInv, ActiveInv, InstalledInv, Image
<1>7. ChunksInv'
  BY <1>2, <1>3 DEF IInv, ChunksInv, ChunkOf
<1> QED BY <1>4, <1>5, <1>6, <1>7 DEF IInv

LEMMA PrepareKeepsInv ==
  ASSUME IInv, PrepareServer
  PROVE  IInv'
<1> DEFINE datagram == [kind |-> "prepare", server |-> next_server, key |-> update_key,
                        offer |-> sent[update_key]]
<1>1. /\ pc # "idle" /\ next_server <= NumServers
      /\ Send(datagram, {next_server})
      /\ next_server' = next_server + 1
      /\ UNCHANGED <<pc, sent, update_byte_offset, next_threshold_byte_offset, serverVars>>
  BY DEF PrepareServer
<1>2. update_key \in Nat /\ sent[update_key] \in Offers
  BY <1>1, CurrentOffer DEF IInv, TypeOK, ClientInv
<1>3. next_server \in Servers /\ next_server' \in 1 .. NumServers + 1
  BY <1>1, ServersAssumption DEF IInv, TypeOK, Servers
<1>4. datagram \in Datagram
  BY <1>2, <1>3 DEF Datagram
<1>5. /\ inbox' \in [Servers -> Seq(Datagram)]
      /\ running' \in [Servers -> BOOLEAN]
      /\ missed' \in [Servers -> SUBSET Nat]
      /\ PreparesInv' /\ ChunksInv' /\ ActiveInv' /\ InstalledInv'
  <2> HIDE DEF datagram
  <2>1. /\ datagram.key = update_key /\ datagram.offer = sent[update_key]
        /\ datagram.kind = "prepare"
    BY DEF datagram
  <2> QED BY <1>1, <1>4, <2>1, SendKeepsInv
<1>6. TypeOK'
  BY <1>1, <1>3, <1>5 DEF IInv, TypeOK, serverVars
<1>7. ClientInv'
  BY <1>1 DEF IInv, ClientInv, update_len, update_key
<1> QED BY <1>5, <1>6, <1>7 DEF IInv

LEMMA AllPreparedKeepsInv ==
  ASSUME IInv, AllPrepared
  PROVE  IInv'
<1>1. update_len \in Nat
  BY CurrentOffer DEF AllPrepared, IInv, TypeOK, ClientInv
<1>2. /\ next_threshold_byte_offset' \in Nat
      /\ next_threshold_byte_offset' = ThresholdAfter(0, update_len)
  <2>1. 0 \div UPDATE_BYTES_PROCESSING_THRESHOLD = 0
    BY SizesAssumption
  <2>2. (0 + 1) * UPDATE_BYTES_PROCESSING_THRESHOLD = UPDATE_BYTES_PROCESSING_THRESHOLD
    BY SizesAssumption
  <2> QED BY <1>1, <2>1, <2>2, SizesAssumption, LeastFacts DEF AllPrepared, ThresholdAfter
<1>3. TypeOK'
  BY <1>2 DEF AllPrepared, IInv, TypeOK, serverVars, busVars
<1>4. ClientInv'
  BY <1>1, <1>2 DEF AllPrepared, IInv, ClientInv, update_len, update_key
<1>5. PreparesInv' /\ ActiveInv' /\ InstalledInv'
  BY DEF AllPrepared, IInv, PreparesInv, ActiveInv, InstalledInv, Image, serverVars, busVars
<1>6. ChunksInv'
  BY DEF AllPrepared, IInv, ChunksInv, busVars
<1> QED BY <1>3, <1>4, <1>5, <1>6 DEF IInv

LEMMA UpdateKeepsInv ==
  ASSUME IInv, UpdateServers
  PROVE  IInv'
<1> DEFINE to == ChunkEnd
           threshold == ThresholdAfter(update_byte_offset, update_len)
           datagram == [kind |-> "update", key |-> update_key,
                        byte_offset |-> update_byte_offset,
                        len |-> to - update_byte_offset,
                        pause |-> IF to = next_threshold_byte_offset THEN "long" ELSE "short"]
<1>1. /\ pc = "update" /\ update_byte_offset < update_len
      /\ Send(datagram, Servers)
      /\ next_threshold_byte_offset' =
           IF to = next_threshold_byte_offset
             THEN Least(next_threshold_byte_offset + UPDATE_BYTES_PROCESSING_THRESHOLD, update_len)
             ELSE next_threshold_byte_offset
      /\ update_byte_offset' = to
      /\ UNCHANGED <<pc, sent, next_server, serverVars>>
  BY DEF UpdateServers
<1>2. update_key \in Nat /\ update_len \in Nat
  BY <1>1, CurrentOffer DEF IInv, TypeOK, ClientInv
<1>3. /\ update_byte_offset \in Nat /\ next_threshold_byte_offset = threshold
  BY <1>1 DEF IInv, TypeOK, ClientInv
<1>4. threshold \in Nat /\ update_byte_offset < threshold /\ threshold <= update_len
  BY <1>1, <1>2, <1>3, ThresholdFacts
<1>5. /\ to \in Nat /\ update_byte_offset < to /\ to <= threshold
      /\ to <= update_byte_offset + UPDATE_BYTES_SIZE
  <2> HIDE DEF threshold
  <2> QED BY <1>3, <1>4, SizesAssumption DEF ChunkEnd, Least
<1>6. /\ to < threshold => ThresholdAfter(to, update_len) = threshold
      /\ to = threshold /\ to < update_len =>
           ThresholdAfter(to, update_len) =
             Least(to + UPDATE_BYTES_PROCESSING_THRESHOLD, update_len)
  BY <1>1, <1>2, <1>3, <1>5, ThresholdSteps
<1>7. /\ next_threshold_byte_offset' \in Nat
      /\ to < update_len => next_threshold_byte_offset' = ThresholdAfter(to, update_len)
      /\ to <= update_len
  <2> HIDE DEF to, threshold
  <2> QED BY <1>1, <1>2, <1>3, <1>4, <1>5, <1>6, SizesAssumption DEF Least
<1>8. datagram \in Datagram /\ ChunkOf(datagram, update_len)
  <2>1. /\ to - update_byte_offset \in 0 .. UPDATE_BYTES_SIZE
        /\ update_byte_offset + (to - update_byte_offset) = to
    BY <1>3, <1>5, SizesAssumption
  <2> HIDE DEF to
  <2>2. datagram \in Datagram
    BY <1>2, <1>3, <2>1 DEF Datagram
  <2> QED BY <1>3, <1>5, <2>1, <2>2 DEF ChunkOf
<1>9. /\ inbox' \in [Servers -> Seq(Datagram)]
      /\ running' \in [Servers -> BOOLEAN]
      /\ missed' \in [Servers -> SUBSET Nat]
      /\ PreparesInv' /\ ChunksInv' /\ ActiveInv' /\ InstalledInv'
  <2>1. datagram.kind = "update" /\ datagram.key = update_key
    OBVIOUS
  <2> HIDE DEF datagram
  <2> QED BY <1>1, <1>8, <2>1, SendKeepsInv
<1>10. TypeOK'
  BY <1>1, <1>5, <1>7, <1>9 DEF IInv, TypeOK, serverVars
<1>11. ClientInv'
  <2> HIDE DEF to
  <2> QED BY <1>1, <1>7 DEF IInv, ClientInv, update_len, update_key
<1> QED BY <1>9, <1>10, <1>11 DEF IInv

LEMMA DoneKeepsInv ==
  ASSUME IInv, ClientDone
  PROVE  IInv'
<1>1. TypeOK' /\ ClientInv'
  BY DEF ClientDone, IInv, TypeOK, ClientInv, serverVars, busVars
<1>2. PreparesInv' /\ ActiveInv' /\ InstalledInv'
  BY DEF ClientDone, IInv, PreparesInv, ActiveInv, InstalledInv, Image, serverVars, busVars
<1>3. ChunksInv'
  BY DEF ClientDone, IInv, ChunksInv, busVars
<1> QED BY <1>1, <1>2, <1>3 DEF IInv

(* A prepare datagram that is newer starts the update it describes. *)
LEMMA ProcessPrepareKeeps ==
  ASSUME IInv, NEW s \in Servers, NEW prepare \in Datagram, prepare.kind = "prepare",
         prepare.key \in DOMAIN sent, prepare.offer = sent[prepare.key],
         ProcessPrepare(s, prepare), UNCHANGED sent
  PROVE  /\ active_update_info' \in [Servers -> UpdateInfo \cup {None}]
         /\ flash' \in [Servers -> SUBSET (Nat \X Nat)]
         /\ flushed' \in [Servers -> Nat]
         /\ installed' \in [Servers -> SUBSET [key : Nat, bytes : SUBSET (Nat \X Nat)]]
         /\ ActiveInv' /\ InstalledInv'
<1>1. CASE Activated(prepare) = None
  BY <1>1 DEF ProcessPrepare, serverVars, IInv, TypeOK, ActiveInv, InstalledInv, Image
<1>2. CASE Activated(prepare) # None
  <2> DEFINE new == [key |-> prepare.key, byte_len |-> prepare.offer.update_len,
                     next_byte_offset |-> 0]
  <2>1. /\ active_update_info' = [active_update_info EXCEPT ![s] = new]
        /\ flash' = [flash EXCEPT ![s] = {}]
        /\ flushed' = [flushed EXCEPT ![s] = 0]
        /\ UNCHANGED installed
    BY <1>2 DEF ProcessPrepare, Activated
  <2>2. prepare.key \in Nat /\ prepare.offer \in Offers
    BY DEF Datagram
  <2>3. new \in UpdateInfo
    BY <2>2, OffersAssumption DEF Offer, UpdateInfo
  <2>4. /\ active_update_info' \in [Servers -> UpdateInfo \cup {None}]
        /\ flash' \in [Servers -> SUBSET (Nat \X Nat)]
        /\ flushed' \in [Servers -> Nat]
    <3> HIDE DEF new
    <3> QED BY <2>1, <2>3 DEF IInv, TypeOK
  <2>5. ActiveInv'
    <3> SUFFICES ASSUME NEW t \in Servers, active_update_info'[t] # None
                 PROVE  /\ active_update_info'[t].key \in DOMAIN sent
                        /\ active_update_info'[t].byte_len =
                             sent[active_update_info'[t].key].update_len
                        /\ flash'[t] = {active_update_info'[t].key}
                             \X (0 .. active_update_info'[t].next_byte_offset - 1)
                        /\ active_update_info'[t].next_byte_offset - flushed'[t]
                             \in 0 .. UPDATE_BYTES_PROCESSING_THRESHOLD - 1
                        /\ flushed'[t] % UPDATE_BYTES_PROCESSING_THRESHOLD = 0
                        /\ Newer(sent[active_update_info'[t].key].version, current_version)
      BY DEF ActiveInv
    <3>1. CASE t = s
      <4>1. active_update_info'[t] = new /\ flash'[t] = {} /\ flushed'[t] = 0
        <5> HIDE DEF new
        <5> QED BY <2>1, <3>1 DEF IInv, TypeOK
      <4>2. {prepare.key} \X (0 .. 0 - 1) = {}
        OBVIOUS
      <4>3. /\ 0 - 0 \in 0 .. UPDATE_BYTES_PROCESSING_THRESHOLD - 1
            /\ 0 % UPDATE_BYTES_PROCESSING_THRESHOLD = 0
        BY SizesAssumption
      <4>4. Newer(prepare.offer.version, current_version)
        BY <1>2 DEF Activated
      <4> QED BY <4>1, <4>2, <4>3, <4>4
    <3>2. CASE t # s
      <4> HIDE DEF new
      <4>1. /\ active_update_info'[t] = active_update_info[t]
            /\ flash'[t] = flash[t] /\ flushed'[t] = flushed[t]
        BY <2>1, <3>2 DEF IInv, TypeOK
      <4> QED BY <4>1 DEF IInv, ActiveInv
    <3> QED BY <3>1, <3>2
  <2>6. InstalledInv' /\ installed' \in [Servers -> SUBSET [key : Nat, bytes : SUBSET (Nat \X Nat)]]
    BY <2>1 DEF IInv, TypeOK, InstalledInv, Image
  <2> QED BY <2>4, <2>5, <2>6
<1> QED BY <1>1, <1>2

(* An update datagram that follows on from the bytes of the active update  *)
(* extends them; any other one ends it.                                    *)
LEMMA ProcessActiveUpdateKeeps ==
  ASSUME IInv, NEW s \in Servers, NEW update \in Datagram, update.kind = "update",
         active_update_info[s] # None, active_update_info[s].key = update.key,
         ChunkOf(update, sent[update.key].update_len),
         ProcessActiveUpdate(s, update), UNCHANGED sent
  PROVE  /\ active_update_info' \in [Servers -> UpdateInfo \cup {None}]
         /\ flash' \in [Servers -> SUBSET (Nat \X Nat)]
         /\ flushed' \in [Servers -> Nat]
         /\ installed' \in [Servers -> SUBSET [key : Nat, bytes : SUBSET (Nat \X Nat)]]
         /\ ActiveInv' /\ InstalledInv'
<1>1. CASE update.byte_offset # active_update_info[s].next_byte_offset
  <2>1. /\ active_update_info' = [active_update_info EXCEPT ![s] = None]
        /\ UNCHANGED <<flash, flushed, installed>>
    BY <1>1 DEF ProcessActiveUpdate, Abandon
  <2> QED BY <2>1 DEF IInv, TypeOK, ActiveInv, InstalledInv, Image
<1>2. CASE update.byte_offset = active_update_info[s].next_byte_offset
  <2> DEFINE info == active_update_info[s]
             next == info.next_byte_offset + update.len
             bytes == flash[s] \cup ({update.key} \X (update.byte_offset .. next - 1))
             done == next = info.byte_len
             more == [info EXCEPT !.next_byte_offset = next]
             record == [key |-> info.key, bytes |-> bytes]
  <2>1. /\ active_update_info' = [active_update_info EXCEPT ![s] = IF done THEN None ELSE more]
        /\ flash' = [flash EXCEPT ![s] = bytes]
        /\ flushed' = [flushed EXCEPT ![s] =
             IF done \/ next % UPDATE_BYTES_PROCESSING_THRESHOLD = 0 THEN next ELSE @]
        /\ installed' = [installed EXCEPT ![s] = IF done THEN @ \cup {record} ELSE @]
    BY <1>2 DEF ProcessActiveUpdate
  <2>2. update.len \in Nat /\ update.byte_offset \in Nat /\ update.key \in Nat
    BY DEF Datagram
  <2>3. info \in UpdateInfo
    BY DEF IInv, TypeOK
  <2>4. info.next_byte_offset \in Nat /\ info.byte_len \in Nat /\ info.key \in Nat
    BY <2>3 DEF UpdateInfo
  <2>5. next \in Nat
    BY <2>2, <2>4
  <2>6. /\ info.key \in DOMAIN sent
        /\ info.byte_len = sent[info.key].update_len
        /\ flash[s] = {info.key} \X (0 .. info.next_byte_offset - 1)
        /\ Newer(sent[info.key].version, current_version)
    BY DEF IInv, ActiveInv
  <2>7. bytes = {info.key} \X (0 .. next - 1)
    <3>1. (0 .. info.next_byte_offset - 1) \cup (info.next_byte_offset .. next - 1)
            = 0 .. next - 1
      BY <2>2, <2>4
    <3> HIDE DEF next
    <3> QED BY <1>2, <2>6, <3>1
  <2>8. /\ more \in UpdateInfo
        /\ more.key = info.key /\ more.byte_len = info.byte_len
        /\ more.next_byte_offset = next
    <3> HIDE DEF next
    <3> QED BY <2>3, <2>5 DEF UpdateInfo
  <2>9. bytes \in SUBSET (Nat \X Nat)
    <3>1. 0 .. next - 1 \subseteq Nat
      BY <2>5
    <3> QED BY <2>4, <2>7, <3>1
  <2>10. record \in [key : Nat, bytes : SUBSET (Nat \X Nat)]
    <3> HIDE DEF bytes
    <3> QED BY <2>4, <2>9
  <2>11. \/ next % UPDATE_BYTES_PROCESSING_THRESHOLD = 0
         \/ /\ next - flushed[s] \in 0 .. UPDATE_BYTES_PROCESSING_THRESHOLD - 1
            /\ flushed[s] % UPDATE_BYTES_PROCESSING_THRESHOLD = 0
    <3>1. /\ flushed[s] \in Nat
          /\ flushed[s] % UPDATE_BYTES_PROCESSING_THRESHOLD = 0
          /\ info.next_byte_offset - flushed[s] \in 0 .. UPDATE_BYTES_PROCESSING_THRESHOLD - 1
      BY DEF IInv, TypeOK, ActiveInv
    <3>2. /\ info.next_byte_offset < next
          /\ next <= ThresholdAfter(info.next_byte_offset, info.byte_len)
      BY <1>2, <2>6 DEF ChunkOf
    <3> HIDE DEF info, next
    <3> QED BY <2>4, <2>5, <3>1, <3>2, FlushFacts
  <2> HIDE DEF info, next, bytes, done, more, record
  <2>12. /\ active_update_info' \in [Servers -> UpdateInfo \cup {None}]
         /\ flash' \in [Servers -> SUBSET (Nat \X Nat)]
         /\ flushed' \in [Servers -> Nat]
         /\ installed' \in [Servers -> SUBSET [key : Nat, bytes : SUBSET (Nat \X Nat)]]
    BY <2>1, <2>5, <2>8, <2>9, <2>10 DEF IInv, TypeOK
  <2>13. ActiveInv'
    <3> SUFFICES ASSUME NEW t \in Servers, active_update_info'[t] # None
                 PROVE  /\ active_update_info'[t].key \in DOMAIN sent
                        /\ active_update_info'[t].byte_len =
                             sent[active_update_info'[t].key].update_len
                        /\ flash'[t] = {active_update_info'[t].key}
                             \X (0 .. active_update_info'[t].next_byte_offset - 1)
                        /\ active_update_info'[t].next_byte_offset - flushed'[t]
                             \in 0 .. UPDATE_BYTES_PROCESSING_THRESHOLD - 1
                        /\ flushed'[t] % UPDATE_BYTES_PROCESSING_THRESHOLD = 0
                        /\ Newer(sent[active_update_info'[t].key].version, current_version)
      BY DEF ActiveInv
    <3>1. CASE t = s
      <4>1. active_update_info'[t] = more /\ flash'[t] = bytes /\ ~done
        BY <2>1, <3>1 DEF IInv, TypeOK
      <4>2. flushed'[t] =
              IF next % UPDATE_BYTES_PROCESSING_THRESHOLD = 0 THEN next ELSE flushed[s]
        BY <2>1, <3>1, <4>1 DEF IInv, TypeOK
      <4>3. /\ next - flushed'[t] \in 0 .. UPDATE_BYTES_PROCESSING_THRESHOLD - 1
            /\ flushed'[t] % UPDATE_BYTES_PROCESSING_THRESHOLD = 0
        BY <2>5, <2>11, <4>2, SizesAssumption
      <4> QED BY <4>1, <4>3, <2>6, <2>7, <2>8
    <3>2. CASE t # s
      <4>1. /\ active_update_info'[t] = active_update_info[t]
            /\ flash'[t] = flash[t] /\ flushed'[t] = flushed[t]
        BY <2>1, <3>2 DEF IInv, TypeOK
      <4> QED BY <4>1 DEF IInv, ActiveInv
    <3> QED BY <3>1, <3>2
  <2>14. InstalledInv'
    <3> SUFFICES ASSUME NEW t \in Servers, NEW u \in installed'[t]
                 PROVE  /\ u.key \in DOMAIN sent
                        /\ u.bytes = {u.key} \X (0 .. sent[u.key].update_len - 1)
                        /\ Newer(sent[u.key].version, current_version)
      BY DEF InstalledInv, Image
    <3>1. CASE u \in installed[t]
      BY <3>1 DEF IInv, InstalledInv, Image
    <3>2. CASE u \notin installed[t]
      <4>1. done /\ u = record
        BY <2>1, <3>2 DEF IInv, TypeOK
      <4>2. u.key = info.key /\ u.bytes = bytes
        BY <4>1 DEF record
      <4>3. next = sent[info.key].update_len
        BY <4>1, <2>6 DEF done
      <4> QED BY <4>2, <4>3, <2>6, <2>7
    <3> QED BY <3>1, <3>2
  <2> QED BY <2>12, <2>13, <2>14
<1> QED BY <1>1, <1>2

LEMMA ReceiveKeepsInv ==
  ASSUME IInv, NEW s \in Servers, ServerReceive(s)
  PROVE  IInv'
<1> DEFINE datagram == Head(inbox[s])
<1>1. inbox[s] \in Seq(Datagram) /\ inbox[s] # <<>>
  BY DEF ServerReceive, IInv, TypeOK
<1>2. /\ datagram = inbox[s][1] /\ 1 \in DOMAIN inbox[s] /\ datagram \in Datagram
      /\ Tail(inbox[s]) \in Seq(Datagram)
      /\ \A i \in DOMAIN Tail(inbox[s]) :
           i + 1 \in DOMAIN inbox[s] /\ Tail(inbox[s])[i] = inbox[s][i + 1]
  BY <1>1
<1>3. /\ inbox' = [inbox EXCEPT ![s] = Tail(@)]
      /\ UNCHANGED <<clientVars, running, missed>>
  BY DEF ServerReceive
<1>4. UNCHANGED sent
  BY <1>3 DEF clientVars
<1>5. inbox' \in [Servers -> Seq(Datagram)]
  BY <1>2, <1>3 DEF IInv, TypeOK
<1>6. PreparesInv'
  <2> SUFFICES ASSUME NEW t \in Servers, NEW i \in DOMAIN inbox'[t],
                      inbox'[t][i].kind = "prepare"
               PROVE  /\ inbox'[t][i].key \in DOMAIN sent
                      /\ inbox'[t][i].offer = sent[inbox'[t][i].key]
    BY <1>4 DEF PreparesInv
  <2>1. CASE t = s
    <3>1. inbox'[t] = Tail(inbox[s])
      BY <1>3, <2>1 DEF IInv, TypeOK
    <3>2. i + 1 \in DOMAIN inbox[s] /\ inbox'[t][i] = inbox[s][i + 1]
      BY <1>2, <3>1
    <3> QED BY <3>2 DEF IInv, PreparesInv
  <2>2. CASE t # s
    <3>1. inbox'[t] = inbox[t]
      BY <1>3, <2>2 DEF IInv, TypeOK
    <3> QED BY <3>1 DEF IInv, PreparesInv
  <2> QED BY <2>1, <2>2
<1>7. ChunksInv'
  <2> SUFFICES ASSUME NEW t \in Servers, NEW i \in DOMAIN inbox'[t],
                      inbox'[t][i].kind = "update"
               PROVE  /\ inbox'[t][i].key \in DOMAIN sent
                      /\ ChunkOf(inbox'[t][i], sent[inbox'[t][i].key].update_len)
    BY <1>4 DEF ChunksInv, ChunkOf
  <2>1. CASE t = s
    <3>1. inbox'[t] = Tail(inbox[s])
      BY <1>3, <2>1 DEF IInv, TypeOK
    <3>2. i + 1 \in DOMAIN inbox[s] /\ inbox'[t][i] = inbox[s][i + 1]
      BY <1>2, <3>1
    <3> QED BY <3>2 DEF IInv, ChunksInv
  <2>2. CASE t # s
    <3>1. inbox'[t] = inbox[t]
      BY <1>3, <2>2 DEF IInv, TypeOK
    <3> QED BY <3>1 DEF IInv, ChunksInv
  <2> QED BY <2>1, <2>2
<1>8. /\ active_update_info' \in [Servers -> UpdateInfo \cup {None}]
      /\ flash' \in [Servers -> SUBSET (Nat \X Nat)]
      /\ flushed' \in [Servers -> Nat]
      /\ installed' \in [Servers -> SUBSET [key : Nat, bytes : SUBSET (Nat \X Nat)]]
      /\ ActiveInv' /\ InstalledInv'
  <2>1. CASE /\ datagram.kind = "update"
             /\ active_update_info[s] # None
             /\ active_update_info[s].key = datagram.key
             /\ ProcessActiveUpdate(s, datagram)
    <3>1. ChunkOf(datagram, sent[datagram.key].update_len)
      BY <1>2, <2>1 DEF IInv, ChunksInv
    <3> HIDE DEF datagram
    <3> QED BY <1>2, <1>4, <2>1, <3>1, ProcessActiveUpdateKeeps
  <2>2. CASE datagram.kind = "prepare" /\ ProcessPrepare(s, datagram)
    <3>1. datagram.key \in DOMAIN sent /\ datagram.offer = sent[datagram.key]
      BY <1>2, <2>2 DEF IInv, PreparesInv
    <3> HIDE DEF datagram
    <3> QED BY <1>2, <1>4, <2>2, <3>1, ProcessPrepareKeeps
  <2>3. CASE UNCHANGED serverVars
    BY <1>4, <2>3 DEF serverVars, IInv, TypeOK, ActiveInv, InstalledInv, Image
  <2> QED BY <2>1, <2>2, <2>3 DEF ServerReceive
<1>9. TypeOK'
  BY <1>3, <1>5, <1>8 DEF IInv, TypeOK, clientVars
<1>10. ClientInv'
  BY <1>3 DEF IInv, ClientInv, clientVars, update_len, update_key
<1> QED BY <1>6, <1>7, <1>8, <1>9, <1>10 DEF IInv

LEMMA InitInv ==
  Init => IInv
<1> SUFFICES ASSUME Init
             PROVE  IInv
  OBVIOUS
<1>1. TypeOK
  BY ServersAssumption DEF Init, TypeOK
<1>2. ClientInv
  BY DEF Init, ClientInv
<1>3. PreparesInv /\ ChunksInv
  BY DEF Init, PreparesInv, ChunksInv
<1>4. ActiveInv
  BY DEF Init, ActiveInv
<1>5. InstalledInv
  BY DEF Init, InstalledInv
<1> QED BY <1>1, <1>2, <1>3, <1>4, <1>5 DEF IInv

LEMMA NextInv ==
  IInv /\ [Next]_vars => IInv'
<1> SUFFICES ASSUME IInv, [Next]_vars
             PROVE  IInv'
  OBVIOUS
<1>1. CASE ClientStart
  BY <1>1, StartKeepsInv
<1>2. CASE PrepareServer
  BY <1>2, PrepareKeepsInv
<1>3. CASE AllPrepared
  BY <1>3, AllPreparedKeepsInv
<1>4. CASE UpdateServers
  BY <1>4, UpdateKeepsInv
<1>5. CASE ClientDone
  BY <1>5, DoneKeepsInv
<1>6. ASSUME NEW s \in Servers, ServerReceive(s)
      PROVE  IInv'
  BY <1>6, ReceiveKeepsInv
<1>7. CASE UNCHANGED vars
  BY <1>7 DEF vars, clientVars, serverVars, busVars, IInv, TypeOK, ClientInv, PreparesInv,
              ChunksInv, ActiveInv, InstalledInv, Image, update_len, update_key
<1> QED BY <1>1, <1>2, <1>3, <1>4, <1>5, <1>6, <1>7 DEF Next

(* The variables of client and servers keep their types, and a server's    *)
(* offsets and bytes describe one update of the client.                    *)
THEOREM UpdateInvariance ==
  Spec => []IInv
BY InitInv, NextInv, PTL DEF Spec

(* The types of client, servers and bus; a chunk of update_servers never   *)
(* has a negative length.                                                  *)
THEOREM UpdateTypeCorrect ==
  Spec => []TypeOK
<1>1. IInv => TypeOK
  BY DEF IInv
<1> QED BY <1>1, UpdateInvariance, PTL

(* Whatever is lost, garbled or restarted: process_active_update finishes  *)
(* with exactly the bytes of the update that was announced to it.          *)
THEOREM WholeImages ==
  Spec => []InstallsWholeImage
<1>1. IInv => InstallsWholeImage
  BY DEF IInv, InstalledInv, InstallsWholeImage
<1> QED BY <1>1, UpdateInvariance, PTL

(* What an update that was sent says of itself. *)
LEMMA SentOffer ==
  ASSUME TypeOK, NEW k \in DOMAIN sent
  PROVE  sent[k].version \in Version /\ sent[k].update_len \in Nat
<1>1. sent[k] \in Offers
  BY DEF TypeOK
<1> QED BY <1>1, OffersAssumption DEF Offer

(* What compares as greater comes later in the order of semver.org. *)
LEMMA NewerFollows ==
  ASSUME NEW v \in Version, NEW w \in Version, Newer(v, w)
  PROVE  Precedes(w, v)
<1> DEFINE cmpPre == PreCmp(v.pre, w.pre)
<1>1. /\ v.major \in Nat /\ v.minor \in Nat /\ v.patch \in Nat
      /\ w.major \in Nat /\ w.minor \in Nat /\ w.patch \in Nat
      /\ v.pre \in PreRelease \cup {NoPre} /\ w.pre \in PreRelease \cup {NoPre}
  BY DEF Version
<1>2. \A p \in PreRelease \cup {NoPre} :
        p # NoPre => p[1] \in {"Alpha", "Beta"} /\ p[2] \in Nat
  BY DEF PreRelease
<1>3. cmpPre = Greater =>
        \/ Stage(w.pre) < Stage(v.pre)
        \/ Stage(w.pre) = Stage(v.pre) /\ w.pre[2] < v.pre[2]
  BY <1>1, <1>2 DEF PreCmp, PreReleaseCmp, Cmp, Stage, Less, Equal, Greater
<1>4. Then(Cmp(v.major, w.major),
        Then(Cmp(v.minor, w.minor), Then(Cmp(v.patch, w.patch), cmpPre))) = Greater
  BY DEF Newer, VersionCmp
<1> HIDE DEF cmpPre
<1>5. \A m, n \in Nat : \A rest :
        Then(Cmp(m, n), rest) = Greater => n < m \/ (m = n /\ rest = Greater)
  BY DEF Then, Cmp, Less, Equal, Greater
<1>6. \/ w.major < v.major
      \/ w.major = v.major /\ w.minor < v.minor
      \/ w.major = v.major /\ w.minor = v.minor /\ w.patch < v.patch
      \/ w.major = v.major /\ w.minor = v.minor /\ w.patch = v.patch /\ cmpPre = Greater
  BY <1>1, <1>4, <1>5
<1> QED BY <1>3, <1>6 DEF Precedes

(* A server only takes part in updates that are newer in the order of      *)
(* semver.org (activate_update_if_new_version), and only finishes those.   *)
THEOREM OnlyNewer ==
  Spec => []OnlyNewerIsInstalled
<1>1. IInv => OnlyNewerIsInstalled
  <2> SUFFICES ASSUME IInv, NEW k \in DOMAIN sent, Newer(sent[k].version, current_version)
               PROVE  Precedes(current_version, sent[k].version)
    BY DEF IInv, ActiveInv, InstalledInv, OnlyNewerIsInstalled
  <2>1. sent[k].version \in Version /\ current_version \in Version
    BY SentOffer, OffersAssumption DEF IInv
  <2> QED BY <2>1, NewerFollows
<1> QED BY <1>1, UpdateInvariance, PTL

(* process_active_update does its heavy work before its buffer is full,    *)
(* for every size of chunks and buffer.                                    *)
THEOREM BufferIsNotOverrun ==
  Spec => []BufferSuffices
<1>1. IInv => BufferSuffices
  <2> SUFFICES ASSUME IInv, NEW s \in Servers, active_update_info[s] # None
               PROVE  active_update_info[s].next_byte_offset - flushed[s]
                        <= UPDATE_BYTES_PROCESSING_THRESHOLD
    BY DEF BufferSuffices
  <2>1. active_update_info[s].next_byte_offset - flushed[s]
          \in 0 .. UPDATE_BYTES_PROCESSING_THRESHOLD - 1
    BY DEF IInv, ActiveInv
  <2>2. \A n \in 0 .. UPDATE_BYTES_PROCESSING_THRESHOLD - 1 :
          n <= UPDATE_BYTES_PROCESSING_THRESHOLD
    BY SizesAssumption
  <2> QED BY <2>1, <2>2
<1> QED BY <1>1, UpdateInvariance, PTL

(* update_servers pauses for long exactly when process_active_update does  *)
(* its heavy work, for every size of chunks, buffer and update.            *)
THEOREM PausesMatchHeavyWork ==
  Spec => []PausesForHeavyWork
<1>1. IInv => PausesForHeavyWork
  <2> SUFFICES ASSUME IInv, NEW s \in Servers, NEW i \in DOMAIN inbox[s],
                      inbox[s][i].kind = "update"
               PROVE  LET next == inbox[s][i].byte_offset + inbox[s][i].len
                      IN  inbox[s][i].pause = "long" <=>
                            \/ next = sent[inbox[s][i].key].update_len
                            \/ next % UPDATE_BYTES_PROCESSING_THRESHOLD = 0
    BY DEF PausesForHeavyWork
  <2> DEFINE offset == inbox[s][i].byte_offset
             next == offset + inbox[s][i].len
             len == sent[inbox[s][i].key].update_len
  <2>1. inbox[s][i] \in Datagram
    BY DEF IInv, TypeOK
  <2>2. offset \in Nat /\ next \in Nat
    BY <2>1 DEF Datagram
  <2>3. /\ offset < next /\ next <= ThresholdAfter(offset, len)
        /\ inbox[s][i].pause = "long" <=> next = ThresholdAfter(offset, len)
        /\ inbox[s][i].key \in DOMAIN sent
    BY DEF IInv, ChunksInv, ChunkOf
  <2>4. len \in Nat
    <3>1. inbox[s][i].key \in DOMAIN sent
      BY <2>3
    <3> QED BY <3>1, SentOffer DEF IInv
  <2> HIDE DEF offset, next, len
  <2>5. offset < len
    <3>1. PICK below \in Nat : ThresholdAfter(offset, len) =
            Least(below + UPDATE_BYTES_PROCESSING_THRESHOLD, len)
      BY <2>2, <2>4, Block
    <3>2. ThresholdAfter(offset, len) \in Nat /\ ThresholdAfter(offset, len) <= len
      BY <2>4, <3>1, SizesAssumption DEF Least
    <3>3. offset < next /\ next <= ThresholdAfter(offset, len)
      BY <2>3
    <3>4. \A a, b, c, d \in Nat : a < b /\ b <= c /\ c <= d => a < d
      OBVIOUS
    <3> QED BY <2>2, <2>4, <3>2, <3>3, <3>4
  <2>6. next = ThresholdAfter(offset, len) <=>
          next = len \/ next % UPDATE_BYTES_PROCESSING_THRESHOLD = 0
    BY <2>2, <2>3, <2>4, <2>5, ThresholdSteps
  <2>7. inbox[s][i].pause = "long" <=>
          next = len \/ next % UPDATE_BYTES_PROCESSING_THRESHOLD = 0
    BY <2>3, <2>6
  <2> QED BY <2>7 DEF next, offset, len
<1> QED BY <1>1, UpdateInvariance, PTL

==============================================================================
