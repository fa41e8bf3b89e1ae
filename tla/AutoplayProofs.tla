--------------------------- MODULE AutoplayProofs ---------------------------
(***************************************************************************)
(* However many entries, radios and requests there are, and however the    *)
(* threads interleave: silence that was asked for stays, what a radio      *)
(* brings goes after the entry it was asked for, and removing what plays   *)
(* skips nothing else.                                                     *)
(***************************************************************************)
EXTENDS AutoplayProperties, IdSequenceLemmas

Steps == {"none", "landed", "due", "wanted", "added"}
Commands == [what : {"stop", "next", "play", "start"}, id : 0 .. MaxEntries, starts : Nat]

(* The queue: its entries are among those there have been, each once, and  *)
(* the cursor is at the current one.                                       *)
QueueIs(q, n) ==
  /\ q \in [items : Seq(Entries), current : 0 .. MaxEntries, after : Nat, autoplay : BOOLEAN]
  /\ n \in Entries
  /\ ToSet(q.items) \subseteq 1 .. n /\ Distinct(q.items)
  /\ q.after <= Len(q.items)
  /\ q.current # None => q.after > 0 /\ q.items[q.after] = q.current

QueueAgrees == QueueIs(queue, used)

(* The engine: something loads only while it says so, a track is there     *)
(* only while it plays, and is the current entry if there is one.          *)
EngineIs(e, q) ==
  /\ e \in [state : {"Stopped", "Loading", "Playing"}, track : 0 .. MaxEntries,
            load : {"nothing", "next", "track", "dry", "gone"},
            wanted : 0 .. MaxEntries, starts : Nat]
  /\ e.state = "Loading" <=> e.load # "nothing"
  /\ e.track # None => e.state = "Playing" /\ q.current \in {None, e.track}

EngineAgrees == EngineIs(engine, queue)

(* What is sent and heard.                                                 *)
MailAgrees ==
  /\ inbox \in Seq(Commands)
  /\ heard \in Seq(0 .. MaxEntries) /\ changed \in BOOLEAN

(* Autoplay: what is due or fetched is an entry.                           *)
RadioAgrees ==
  /\ fan \in [step : {"idle", "due", "playing"}, entry : 0 .. MaxEntries, early : BOOLEAN]
  /\ fan.step # "idle" => fan.entry # None
  /\ state \in [generation : Nat, entry : 0 .. MaxEntries, fetching : BOOLEAN,
                resume : BOOLEAN, seeded : BOOLEAN]
  /\ fetches \subseteq [entry : Entries, generation : 0 .. state.generation]
  /\ landing \in [step : Steps, entry : 0 .. MaxEntries, resume : BOOLEAN]
  /\ landing.step # "none" => landing.entry # None

(* The request under the lock, which nothing else holds then.              *)
RequestAgrees ==
  /\ client \in [step : {"idle", "clearing", "commanding", "removing", "skipping"},
                 what : {"none", "stop", "clear"}, id : 0 .. MaxEntries,
                 playing : 0 .. MaxEntries, starts : Nat]
  /\ client.step = "idle" \/ landing.step = "none"
  /\ requests \in Nat
  /\ silent \in BOOLEAN /\ early \in BOOLEAN /\ empty \in BOOLEAN

Types == QueueAgrees /\ EngineAgrees /\ MailAgrees /\ RadioAgrees /\ RequestAgrees

(* While a radio is being added, its entry is the last one.                *)
EntryIsLast ==
  landing.step \in {"due", "wanted"} =>
    Len(queue.items) > 0 /\ queue.items[Len(queue.items)] = landing.entry

(* The entry a skip is about, and how many tracks had started then: it is  *)
(* gone from the queue, and what plays is it or started later.             *)
Skippable(e, id, starts) ==
  starts <= e.starts /\ (starts = e.starts => e.track \in {None, id})

Gone(q, n, id) == id \in 1 .. n /\ id \notin ToSet(q.items)

SkipsAgree ==
  /\ client.step = "removing" =>
       /\ client.id \in ToSet(queue.items)
       /\ client.playing = client.id => Skippable(engine, client.id, client.starts)
  /\ client.step = "skipping" =>
       Gone(queue, used, client.id) /\ Skippable(engine, client.id, client.starts)
  /\ \A i \in DOMAIN inbox : inbox[i].what = "next" /\ inbox[i].id # None =>
       Gone(queue, used, inbox[i].id) /\ Skippable(engine, inbox[i].id, inbox[i].starts)

(* Once silence was asked for, and with nothing begun on what was before:  *)
(* no radio is under way, no skip is to come, and the last thing to reach  *)
(* the engine is a Stop, unless it is stopped and nothing is to reach it.  *)
Quiet ==
  /\ ~state.fetching /\ landing.step = "none"
  /\ client.step # "skipping"
  /\ client.step = "removing" => client.playing # client.id
  /\ client.step \notin {"clearing", "commanding"} =>
       \/ inbox = <<>> /\ engine.state = "Stopped"
       \/ Len(inbox) > 0 /\ inbox[Len(inbox)].what = "stop"

SilenceAgrees ==
  /\ silent /\ ~early => Quiet
  /\ fan.step = "playing" => fan.early

Inv == Types /\ EntryIsLast /\ SkipsAgree /\ SilenceAgrees

---------------------------------------------------------------------------
(* What is at each place once one entry was taken out.                     *)
LEMMA RemovedPlaces ==
  ASSUME NEW S, NEW s \in Seq(S), NEW p \in 1 .. Len(s)
  PROVE  \A i \in 1 .. Len(RemoveAt(s, p)) :
           RemoveAt(s, p)[i] = IF i < p THEN s[i] ELSE s[i + 1]
<1> DEFINE r == RemoveAt(s, p)
           before == SubSeq(s, 1, p - 1)
           after == SubSeq(s, p + 1, Len(s))
<1>n. Len(s) \in Nat /\ p \in 1 .. Len(s)
  BY LenProperties
<1>a. /\ before \in Seq(S) /\ Len(before) = p - 1
      /\ \A i \in 1 .. (p - 1) : before[i] = s[i]
  BY <1>n, SubSeqProperties, ElementOfSeq
<1>b. /\ after \in Seq(S) /\ Len(after) = Len(s) - p
      /\ \A i \in 1 .. (Len(s) - p) : after[i] = s[p + i]
  BY <1>n, SubSeqProperties, ElementOfSeq
<1>c. r = before \o after
  BY DEF RemoveAt
<1> HIDE DEF before, after, r
<1>d. /\ before \o after \in Seq(S)
      /\ Len(before \o after) = (p - 1) + (Len(s) - p)
      /\ \A i \in 1 .. ((p - 1) + (Len(s) - p)) :
           (before \o after)[i] = IF i <= p - 1 THEN before[i] ELSE after[i - (p - 1)]
  <2>1. before \in Seq(S) /\ Len(before) = p - 1
    BY <1>a
  <2>2. after \in Seq(S) /\ Len(after) = Len(s) - p
    BY <1>b
  <2>3. /\ before \o after \in Seq(S)
        /\ Len(before \o after) = (p - 1) + (Len(s) - p)
    BY <2>1, <2>2, JoinedProperties
  <2>4. \A i \in 1 .. ((p - 1) + (Len(s) - p)) :
          (before \o after)[i] = IF i <= p - 1 THEN before[i] ELSE after[i - (p - 1)]
    BY <2>1, <2>2, JoinedProperties
  <2> QED BY <2>3, <2>4
<1>1. ASSUME NEW i \in 1 .. Len(r) PROVE r[i] = IF i < p THEN s[i] ELSE s[i + 1]
  <2>0. Len(r) = (p - 1) + (Len(s) - p) /\ i \in 1 .. ((p - 1) + (Len(s) - p))
    BY <1>c, <1>d
  <2>1. CASE i < p
    BY <2>0, <2>1, <1>a, <1>c, <1>d, <1>n
  <2>2. CASE i >= p
    <3>1. i - (p - 1) \in 1 .. (Len(s) - p) /\ p + (i - (p - 1)) = i + 1
      BY <2>0, <2>2, <1>n
    <3>2. after[i - (p - 1)] = s[i + 1]
      BY <3>1, <1>b
    <3>3. r[i] = after[i - (p - 1)]
      <4>1. ~(i <= p - 1)
        BY <2>2, <1>n
      <4> QED BY <2>0, <4>1, <1>c, <1>d
    <3> QED BY <2>2, <3>2, <3>3, <1>n
  <2> QED BY <2>0, <2>1, <2>2, <1>n
<1> QED BY <1>1 DEF r

---------------------------------------------------------------------------
(* What the steps do to the queue.                                         *)

(* The set of a sequence's elements, and those it has.                     *)
LEMMA ElementsAreEntries ==
  ASSUME NEW q, NEW n, QueueIs(q, n), NEW id \in ToSet(q.items)
  PROVE  id \in 1 .. n /\ id \in Entries /\ id # None
<1>1. id \in 1 .. n
  BY DEF QueueIs
<1>2. n \in 1 .. MaxEntries
  BY DEF QueueIs, Entries
<1>3. MaxEntries \in Nat
  BY AutoplayAssumption
<1> QED BY <1>1, <1>2, <1>3 DEF Entries, None

LEMMA PlaceOfElement ==
  ASSUME NEW s, NEW id \in ToSet(s)
  PROVE  /\ (CHOOSE i \in DOMAIN s : s[i] = id) \in DOMAIN s
         /\ s[CHOOSE i \in DOMAIN s : s[i] = id] = id
BY DEF ToSet

(* An entry starts: the cursor moves to it.                                *)
LEMMA AtEntryIs ==
  ASSUME QueueIs(queue, used), NEW id \in ToSet(queue.items)
  PROVE  /\ QueueIs(AtEntry(id), used)
         /\ AtEntry(id).items = queue.items /\ AtEntry(id).current = id
<1> DEFINE at == CHOOSE i \in DOMAIN queue.items : queue.items[i] = id
<1>1. at \in DOMAIN queue.items /\ queue.items[at] = id
  BY PlaceOfElement
<1>2. id \in Entries
  BY ElementsAreEntries
<1>3. queue.items \in Seq(Entries)
  BY DEF QueueIs
<1>4. at \in 1 .. Len(queue.items)
  BY <1>1, <1>3
<1>5. AtEntry(id) = [queue EXCEPT !.current = id, !.after = at]
  BY DEF AtEntry
<1> HIDE DEF at
<1>6. MaxEntries \in Nat /\ Len(queue.items) \in Nat
  BY AutoplayAssumption, <1>3, LenProperties
<1>7. id \in 0 .. MaxEntries /\ at \in Nat /\ at <= Len(queue.items) /\ at > 0
  BY <1>2, <1>4, <1>6 DEF Entries
<1> QED BY <1>1, <1>5, <1>7 DEF QueueIs

(* An entry is removed.                                                    *)
LEMMA RemovedIs ==
  ASSUME QueueIs(queue, used), NEW id \in ToSet(queue.items)
  PROVE  /\ QueueIs(Removed(id), used)
         /\ ToSet(Removed(id).items) = ToSet(queue.items) \ {id}
         /\ Removed(id).current \in {None, queue.current}
<1> DEFINE at == CHOOSE i \in DOMAIN queue.items : queue.items[i] = id
           s == RemoveAt(queue.items, at)
           after == IF at <= queue.after THEN queue.after - 1 ELSE queue.after
           current == IF queue.current = id THEN None ELSE queue.current
<1>1. at \in DOMAIN queue.items /\ queue.items[at] = id
  BY PlaceOfElement
<1>2. queue.items \in Seq(Entries) /\ Distinct(queue.items)
  BY DEF QueueIs
<1>3. at \in 1 .. Len(queue.items) /\ Len(queue.items) \in Nat
  BY <1>1, <1>2
<1> HIDE DEF at
<1>4. /\ s \in Seq(Entries) /\ Len(s) = Len(queue.items) - 1
      /\ ToSet(s) = ToSet(queue.items) \ {id} /\ Distinct(s)
  BY <1>1, <1>2, RemoveAtProperties
<1>5. Removed(id) = [queue EXCEPT !.items = s, !.current = current, !.after = after]
  BY DEF Removed, at
<1>6. queue.after \in Nat /\ queue.after <= Len(queue.items)
  BY DEF QueueIs
<1>7. after \in Nat /\ after <= Len(s)
  <2>1. CASE at <= queue.after
    BY <2>1, <1>3, <1>4, <1>6
  <2>2. CASE ~(at <= queue.after)
    BY <2>2, <1>3, <1>4, <1>6
  <2> QED BY <2>1, <2>2
<1>8. current # None => after > 0 /\ s[after] = current
  <2>1. SUFFICES ASSUME current # None PROVE after > 0 /\ s[after] = current
    OBVIOUS
  <2>2. queue.current # None /\ current = queue.current /\ queue.current # id
    BY <2>1
  <2>3. queue.after > 0 /\ queue.items[queue.after] = queue.current
    BY <2>2 DEF QueueIs
  <2>4. at # queue.after
    BY <1>1, <2>2, <2>3
  <2>5. \A i \in 1 .. Len(s) : s[i] = IF i < at THEN queue.items[i] ELSE queue.items[i + 1]
    BY <1>2, <1>3, <1>4, RemovedPlaces
  <2>6. CASE at <= queue.after
    <3>1. after = queue.after - 1 /\ after > 0 /\ after + 1 = queue.after /\ ~(after < at)
      BY <2>3, <2>4, <2>6, <1>3, <1>6
    <3>2. after \in 1 .. Len(s)
      BY <3>1, <1>7, <1>4, <1>3
    <3> QED BY <3>1, <3>2, <2>5, <2>3, <2>2
  <2>7. CASE ~(at <= queue.after)
    <3>1. after = queue.after /\ after > 0 /\ after < at
      BY <2>3, <2>7, <1>3, <1>6
    <3>2. after \in 1 .. Len(s)
      BY <3>1, <1>7, <1>4, <1>3
    <3> QED BY <3>1, <3>2, <2>5, <2>3, <2>2
  <2> QED BY <2>6, <2>7
<1>9. current \in 0 .. MaxEntries /\ current \in {None, queue.current}
  BY AutoplayAssumption DEF QueueIs, None
<1> HIDE DEF s, after, current
<1> QED BY <1>4, <1>5, <1>7, <1>8, <1>9 DEF QueueIs

(* A new entry goes last.                                                  *)
LEMMA AppendedIs ==
  ASSUME QueueIs(queue, used), used < MaxEntries
  PROVE  /\ QueueIs(Appended, used + 1)
         /\ ToSet(Appended.items) \subseteq ToSet(queue.items) \cup {used + 1}
         /\ ToSet(queue.items) \subseteq ToSet(Appended.items)
         /\ Appended.current = queue.current
<1> DEFINE s == Append(queue.items, used + 1)
<1>1. queue.items \in Seq(Entries) /\ Distinct(queue.items) /\ used \in Entries
      /\ ToSet(queue.items) \subseteq 1 .. used
  BY DEF QueueIs
<1>2. used \in Nat /\ MaxEntries \in Nat /\ used + 1 \in Entries
  BY <1>1, AutoplayAssumption DEF Entries
<1>3. /\ s \in Seq(Entries) /\ Len(s) = Len(queue.items) + 1
      /\ ToSet(s) \subseteq ToSet(queue.items) \cup {used + 1}
  BY <1>1, <1>2, AppendedSet
<1>4. /\ Len(queue.items) \in Nat /\ DOMAIN queue.items = 1 .. Len(queue.items)
      /\ DOMAIN s = 1 .. (Len(queue.items) + 1)
  BY <1>1, <1>3, LenProperties
<1>5. /\ \A i \in 1 .. Len(queue.items) : s[i] = queue.items[i]
      /\ s[Len(queue.items) + 1] = used + 1
  BY <1>1, <1>2, AppendProperties
<1>6. \A i \in 1 .. Len(queue.items) : queue.items[i] # used + 1
  <2>1. used + 1 \notin 1 .. used
    BY <1>2
  <2>2. \A i \in 1 .. Len(queue.items) : queue.items[i] \in ToSet(queue.items)
    BY <1>4 DEF ToSet
  <2> QED BY <1>1, <2>1, <2>2
<1>7. Distinct(s)
  BY <1>1, <1>4, <1>5, <1>6 DEF Distinct
<1>12. ToSet(queue.items) \subseteq ToSet(s)
  <2>1. ASSUME NEW i \in DOMAIN queue.items PROVE queue.items[i] \in ToSet(s)
    <3>1. i \in DOMAIN s /\ s[i] = queue.items[i]
      BY <1>4, <1>5
    <3> QED BY <3>1 DEF ToSet
  <2> QED BY <2>1 DEF ToSet
<1>8. ToSet(s) \subseteq 1 .. (used + 1)
  BY <1>1, <1>2, <1>3
<1>9. queue.after \in Nat /\ queue.after <= Len(s)
  BY <1>3, <1>4 DEF QueueIs
<1>10. queue.current # None => queue.after > 0 /\ s[queue.after] = queue.current
  BY <1>4, <1>5 DEF QueueIs
<1>11. Appended = [queue EXCEPT !.items = s]
  BY DEF Appended
<1> HIDE DEF s
<1> QED BY <1>2, <1>3, <1>7, <1>8, <1>9, <1>10, <1>11, <1>12 DEF QueueIs

LEMMA NextIsAnElement ==
  ASSUME QueueAgrees, Follows
  PROVE  queue.items[queue.after + 1] \in ToSet(queue.items)
<1>1. queue.items \in Seq(Entries) /\ queue.after \in Nat /\ queue.after < Len(queue.items)
  BY DEF QueueAgrees, QueueIs, Follows
<1>2. DOMAIN queue.items = 1 .. Len(queue.items) /\ Len(queue.items) \in Nat
  BY <1>1, LenProperties
<1>3. queue.after + 1 \in DOMAIN queue.items
  BY <1>1, <1>2
<1> QED BY <1>3 DEF ToSet

---------------------------------------------------------------------------
(* What a step leaves alone stays as it was.                               *)

LEMMA QueueKept ==
  ASSUME QueueAgrees, UNCHANGED <<queue, used>>
  PROVE  QueueAgrees'
BY DEF QueueAgrees, QueueIs

LEMMA EngineKept ==
  ASSUME EngineAgrees, UNCHANGED engine, queue'.current \in {None, queue.current}
  PROVE  EngineAgrees'
BY DEF EngineAgrees, EngineIs

LEMMA MailKept ==
  ASSUME MailAgrees, UNCHANGED <<inbox, heard>>, changed' \in {changed, TRUE, FALSE}
  PROVE  MailAgrees'
BY DEF MailAgrees

LEMMA RadioKept ==
  ASSUME RadioAgrees, UNCHANGED <<fan, state, fetches, landing>>
  PROVE  RadioAgrees'
BY DEF RadioAgrees

LEMMA RequestKept ==
  ASSUME RequestAgrees, UNCHANGED <<client, silent, early, empty>>,
         landing'.step \in {landing.step, "none"} \/ client.step = "idle",
         requests' \in {requests, requests + 1}
  PROVE  RequestAgrees'
BY DEF RequestAgrees

LEMMA EntryKept ==
  ASSUME EntryIsLast, landing'.step \notin {"due", "wanted"} \/ UNCHANGED <<landing, queue>>
  PROVE  EntryIsLast'
BY DEF EntryIsLast

(* The engine starts another track, or goes on or falls silent.            *)
Moves(e, f) ==
  \/ f.starts = e.starts /\ f.track \in {None, e.track}
  \/ f.starts = e.starts + 1

LEMMA SkippableKept ==
  ASSUME NEW e, NEW f, e.starts \in Nat, NEW id, NEW starts \in Nat,
         Skippable(e, id, starts), Moves(e, f)
  PROVE  Skippable(f, id, starts)
<1>1. CASE f.starts = e.starts /\ f.track \in {None, e.track}
  BY <1>1 DEF Skippable
<1>2. CASE f.starts = e.starts + 1
  BY <1>2 DEF Skippable
<1> QED BY <1>1, <1>2 DEF Moves

LEMMA GoneKept ==
  ASSUME NEW q, NEW p, NEW n \in Nat, NEW m \in Nat, n <= m, NEW id, Gone(q, n, id),
         ToSet(p.items) \subseteq ToSet(q.items) \cup (n + 1) .. m
  PROVE  Gone(p, m, id)
<1>1. id \in 1 .. n /\ id \notin ToSet(q.items)
  BY DEF Gone
<1>2. id \in 1 .. m /\ id \notin (n + 1) .. m
  BY <1>1
<1> QED BY <1>1, <1>2 DEF Gone

(* What a skip is about stays gone, and an entry that is being removed     *)
(* stays until it is: nothing else takes one out meanwhile.                *)
LEMMA SkipsKept ==
  ASSUME Types, SkipsAgree,
         Moves(engine, engine'),
         client' = client \/ client'.step \notin {"removing", "skipping"},
         client.step = "removing" => ToSet(queue.items) \subseteq ToSet(queue'.items),
         used \in Nat, used' \in Nat, used <= used',
         ToSet(queue'.items) \subseteq ToSet(queue.items) \cup (used + 1) .. used',
         \A i \in DOMAIN inbox' :
           \/ \E j \in DOMAIN inbox : inbox'[i] = inbox[j]
           \/ inbox'[i].what # "next" \/ inbox'[i].id = None
           \/ /\ client.step = "skipping"
              /\ inbox'[i].id = client.id /\ inbox'[i].starts = client.starts
  PROVE  SkipsAgree'
<1>1. engine.starts \in Nat /\ client.starts \in Nat
  BY DEF Types, EngineAgrees, EngineIs, RequestAgrees
<1>2. \A j \in DOMAIN inbox : inbox[j] \in Commands /\ inbox[j].starts \in Nat
  <2>1. inbox \in Seq(Commands)
    BY DEF Types, MailAgrees
  <2>2. \A j \in DOMAIN inbox : inbox[j] \in Commands
    BY <2>1
  <2> QED BY <2>2 DEF Commands
<1>3. ASSUME client'.step = "removing"
      PROVE  /\ client'.id \in ToSet(queue'.items)
             /\ client'.playing = client'.id => Skippable(engine', client'.id, client'.starts)
  <2>1. client' = client /\ client.step = "removing"
    BY <1>3
  <2>2. client.id \in ToSet(queue'.items)
    BY <2>1 DEF SkipsAgree
  <2>3. client.playing = client.id => Skippable(engine, client.id, client.starts)
    BY <2>1 DEF SkipsAgree
  <2>4. client.playing = client.id => Skippable(engine', client.id, client.starts)
    BY <2>3, <1>1, SkippableKept
  <2> QED BY <2>1, <2>2, <2>4
<1>4. ASSUME client.step = "skipping"
      PROVE  Gone(queue', used', client.id) /\ Skippable(engine', client.id, client.starts)
  <2>1. Gone(queue, used, client.id) /\ Skippable(engine, client.id, client.starts)
    BY <1>4 DEF SkipsAgree
  <2>2. Gone(queue', used', client.id)
    BY <2>1, GoneKept
  <2>3. Skippable(engine', client.id, client.starts)
    BY <2>1, <1>1, SkippableKept
  <2> QED BY <2>2, <2>3
<1>5. client'.step = "skipping" => client' = client /\ client.step = "skipping"
  OBVIOUS
<1>6. ASSUME NEW i \in DOMAIN inbox', inbox'[i].what = "next", inbox'[i].id # None
      PROVE  /\ Gone(queue', used', inbox'[i].id)
             /\ Skippable(engine', inbox'[i].id, inbox'[i].starts)
  <2>1. CASE /\ client.step = "skipping"
             /\ inbox'[i].id = client.id /\ inbox'[i].starts = client.starts
    BY <2>1, <1>4
  <2>2. ASSUME NEW j \in DOMAIN inbox, inbox'[i] = inbox[j]
        PROVE  /\ Gone(queue', used', inbox'[i].id)
               /\ Skippable(engine', inbox'[i].id, inbox'[i].starts)
    <3>1. Gone(queue, used, inbox[j].id) /\ Skippable(engine, inbox[j].id, inbox[j].starts)
      BY <2>2, <1>6 DEF SkipsAgree
    <3>2. Gone(queue', used', inbox[j].id)
      BY <3>1, GoneKept
    <3>3. Skippable(engine', inbox[j].id, inbox[j].starts)
      BY <3>1, <1>1, <1>2, SkippableKept
    <3> QED BY <3>2, <3>3, <2>2
  <2> QED BY <2>1, <2>2, <1>6
<1> QED BY <1>3, <1>4, <1>5, <1>6 DEF SkipsAgree

(* Nothing that a listener asked for or a radio is about changes.          *)
LEMMA QuietKept ==
  ASSUME SilenceAgrees, UNCHANGED <<silent, early, client, inbox>>,
         state'.fetching \in {state.fetching, FALSE}, landing'.step \in {landing.step, "none"},
         engine.state = "Stopped" => engine'.state = "Stopped",
         fan'.step # "playing" \/ fan' = fan
  PROVE  SilenceAgrees'
<1>1. fan'.step = "playing" => fan'.early
  BY DEF SilenceAgrees
<1>2. ASSUME Quiet PROVE Quiet'
  <2>1. ~state.fetching
    BY <1>2 DEF Quiet
  <2>2. ~state'.fetching
    BY <2>1, Zenon
  <2> QED BY <2>2, <1>2 DEF Quiet
<1> QED BY <1>1, <1>2 DEF SilenceAgrees

LEMMA InvIs ==
  Inv <=> /\ QueueAgrees /\ EngineAgrees /\ MailAgrees /\ RadioAgrees /\ RequestAgrees
          /\ EntryIsLast /\ SkipsAgree /\ SilenceAgrees
BY DEF Inv, Types

LEMMA Facts ==
  ASSUME Types
  PROVE  /\ used \in Nat /\ engine.starts \in Nat
         /\ Moves(engine, engine)
         /\ ToSet(queue.items) \subseteq ToSet(queue.items) \cup (used + 1) .. used
         /\ QueueIs(queue, used)
<1>1. used \in Nat /\ engine.starts \in Nat
  BY AutoplayAssumption DEF Types, QueueAgrees, QueueIs, EngineAgrees, EngineIs, Entries
<1> QED BY <1>1 DEF Types, Moves, QueueAgrees

---------------------------------------------------------------------------
(* The engine's steps.                                                     *)

(* What each of the engine's states is made of.                            *)
LEMMA EngineStates ==
  ASSUME EngineAgrees
  PROVE  /\ EngineIs(Stopped, queue) /\ Moves(engine, Stopped) /\ Stopped.state = "Stopped"
         /\ EngineIs(Loading("next", None), queue) /\ Moves(engine, Loading("next", None))
         /\ \A id \in 0 .. MaxEntries :
              EngineIs(Loading("track", id), queue) /\ Moves(engine, Loading("track", id))
<1>0. None \in 0 .. MaxEntries
  BY AutoplayAssumption DEF None
<1>1. EngineIs(Stopped, queue) /\ Moves(engine, Stopped) /\ Stopped.state = "Stopped"
  BY <1>0 DEF EngineAgrees, EngineIs, Moves, Stopped
<1>2. ASSUME NEW id \in 0 .. MaxEntries, NEW what \in {"next", "track"}
      PROVE  EngineIs(Loading(what, id), queue) /\ Moves(engine, Loading(what, id))
  BY <1>0 DEF EngineAgrees, EngineIs, Moves, Loading
<1> QED BY <1>0, <1>1, <1>2

(* What is left of the commands is some of those there were.               *)
LEMMA TailOf ==
  ASSUME NEW S, NEW s \in Seq(S), s # <<>>
  PROVE  /\ Tail(s) \in Seq(S) /\ Head(s) \in S
         /\ Len(s) \in Nat \ {0} /\ Len(Tail(s)) = Len(s) - 1 /\ 1 \in DOMAIN s /\ Head(s) = s[1]
         /\ \A i \in DOMAIN Tail(s) : i + 1 \in DOMAIN s /\ Tail(s)[i] = s[i + 1]
         /\ Len(Tail(s)) > 0 => Tail(s)[Len(Tail(s))] = s[Len(s)]
         /\ Len(Tail(s)) = 0 => Tail(s) = <<>> /\ Head(s) = s[Len(s)]
<1>1. Len(s) \in Nat \ {0} /\ DOMAIN s = 1 .. Len(s)
  BY LenProperties, EmptySeq
<1>2. /\ Tail(s) \in Seq(S) /\ Len(Tail(s)) = Len(s) - 1 /\ Head(s) \in S
      /\ \A i \in 1 .. Len(Tail(s)) : Tail(s)[i] = s[i + 1]
  BY HeadTailProperties
<1>3. DOMAIN Tail(s) = 1 .. (Len(s) - 1)
  BY <1>2, LenProperties
<1>4. Head(s) = s[1]
  BY DEF Head
<1>5. ASSUME Len(Tail(s)) > 0 PROVE Tail(s)[Len(Tail(s))] = s[Len(s)]
  BY <1>1, <1>2, <1>5
<1>6. ASSUME Len(Tail(s)) = 0 PROVE Tail(s) = <<>> /\ Head(s) = s[Len(s)]
  <2>a. \A n \in Nat : n - 1 = 0 => n = 1
    OBVIOUS
  <2>b. Len(s) - 1 = 0
    BY <1>2, <1>6
  <2>1. Len(s) = 1
    BY <1>1, <2>a, <2>b
  <2> QED BY <2>1, <1>2, <1>4, <1>6, EmptySeq
<1> QED BY <1>1, <1>2, <1>3, <1>4, <1>5, <1>6

(* The engine takes a command: a Stop that was the last one leaves nothing *)
(* to come.                                                                *)
LEMMA TakeKeeps ==
  ASSUME Inv, Take
  PROVE  Inv'
<1> USE DEF Take
<1>0. Types /\ EntryIsLast /\ SkipsAgree /\ SilenceAgrees
  BY DEF Inv
<1>1. QueueAgrees' /\ RadioAgrees' /\ RequestAgrees' /\ EntryIsLast'
  BY <1>0, QueueKept, RadioKept, RequestKept, EntryKept DEF Types, player, history
<1>2. inbox \in Seq(Commands) /\ inbox # <<>> /\ inbox' = Tail(inbox)
  BY <1>0 DEF Types, MailAgrees
<1>3. /\ inbox' \in Seq(Commands) /\ Head(inbox) \in Commands
      /\ \A i \in DOMAIN inbox' : i + 1 \in DOMAIN inbox /\ inbox'[i] = inbox[i + 1]
  BY <1>2, TailOf
<1>4. /\ Len(inbox') > 0 => inbox'[Len(inbox')] = inbox[Len(inbox)]
      /\ Len(inbox') = 0 => inbox' = <<>> /\ Head(inbox) = inbox[Len(inbox)]
      /\ Len(inbox') \in Nat
  BY <1>2, <1>3, TailOf, LenProperties
<1>5. MailAgrees'
  BY <1>0, <1>3 DEF Types, MailAgrees
<1>6. \/ Head(inbox).what = "stop" /\ engine' = Stopped
      \/ Head(inbox).what = "next" /\ engine' = Loading("next", None)
      \/ Head(inbox).what = "play" /\ engine' = Loading("track", Head(inbox).id)
      \/ Head(inbox).what = "start" /\ engine' \in {engine, Loading("next", None)}
  <2>1. Head(inbox).what \in {"stop", "next", "play", "start"}
    BY <1>3 DEF Commands
  <2> QED BY <2>1
<1>7. Head(inbox).id \in 0 .. MaxEntries
  BY <1>3 DEF Commands
<1>8. EngineIs(engine', queue) /\ Moves(engine, engine')
  BY <1>0, <1>6, <1>7, EngineStates, Facts DEF Types, EngineAgrees
<1>9. EngineAgrees'
  BY <1>8 DEF EngineAgrees, EngineIs
<1>10. SkipsAgree'
  <2>1. \A i \in DOMAIN inbox' : \E j \in DOMAIN inbox : inbox'[i] = inbox[j]
    BY <1>3
  <2>2. UNCHANGED <<queue, used, client>>
    OBVIOUS
  <2>3. Moves(engine, engine')
    BY <1>8
  <2> HIDE DEF Take
  <2>4. used \in Nat /\ used' = used /\ used <= used'
    BY <1>0, <2>2, Facts
  <2> QED BY <1>0, <2>1, <2>2, <2>3, <2>4, SkipsKept
<1>11. SilenceAgrees'
  <2>1. ASSUME Quiet PROVE Quiet'
    <3>1. CASE client.step \in {"clearing", "commanding"}
      BY <2>1, <3>1 DEF Quiet
    <3>2. CASE client.step \notin {"clearing", "commanding"}
      <4>1. inbox[Len(inbox)].what = "stop"
        BY <2>1, <3>2, <1>2 DEF Quiet
      <4>2. CASE Len(inbox') > 0
        BY <2>1, <4>1, <4>2, <1>4 DEF Quiet
      <4>3. CASE Len(inbox') = 0
        <5>1. Head(inbox).what = "stop" /\ inbox' = <<>>
          BY <4>1, <4>3, <1>4
        <5>2. engine'.state = "Stopped"
          BY <5>1, <1>0, <1>6, EngineStates DEF Types
        <5> QED BY <5>1, <5>2, <2>1 DEF Quiet
      <4>4. Len(inbox') > 0 \/ Len(inbox') = 0
        <5>1. Len(inbox') \in Nat
          BY <1>4
        <5>2. \A n \in Nat : n > 0 \/ n = 0
          OBVIOUS
        <5> QED BY <5>1, <5>2
      <4> QED BY <4>2, <4>3, <4>4
    <3> QED BY <3>1, <3>2
  <2> QED BY <1>0, <2>1 DEF SilenceAgrees, history
<1> QED BY <1>1, <1>5, <1>9, <1>10, <1>11, InvIs DEF Inv, Types

(* The engine starts an entry of the queue.                                *)
LEMMA StartsKeeps ==
  ASSUME Inv, NEW id \in ToSet(queue.items), Starts(id), engine.state # "Stopped"
  PROVE  Inv'
<1> USE DEF Starts
<1>0. Types /\ EntryIsLast /\ SkipsAgree /\ SilenceAgrees
  BY DEF Inv
<1>1. QueueIs(queue', used') /\ queue'.items = queue.items /\ queue'.current = id
  BY <1>0, Facts, AtEntryIs
<1>2. QueueAgrees'
  BY <1>1 DEF QueueAgrees, QueueIs
<1>3. id \in Entries /\ id # None
  BY <1>0, Facts, ElementsAreEntries
<1>4. id \in 0 .. MaxEntries
  BY <1>3, AutoplayAssumption DEF Entries
<1>5. EngineIs(Playing(id), queue') /\ Moves(engine, Playing(id))
  <2>1. engine \in [state : {"Stopped", "Loading", "Playing"}, track : 0 .. MaxEntries,
                    load : {"nothing", "next", "track", "dry", "gone"},
                    wanted : 0 .. MaxEntries, starts : Nat]
    BY <1>0 DEF Types, EngineAgrees, EngineIs
  <2>2. None \in 0 .. MaxEntries
    BY AutoplayAssumption DEF None
  <2>3. engine.starts + 1 \in Nat
    BY <2>1
  <2> QED BY <1>1, <1>4, <2>1, <2>2, <2>3 DEF EngineIs, Moves, Playing
<1>6. EngineAgrees'
  BY <1>5 DEF EngineAgrees, EngineIs
<1>7. MailAgrees'
  BY <1>0, <1>4, AppendProperties DEF Types, MailAgrees
<1>8. RadioAgrees' /\ RequestAgrees'
  BY <1>0, RadioKept, RequestKept DEF Types, history
<1>9. EntryIsLast'
  BY <1>0, <1>1 DEF EntryIsLast
<1>10. SkipsAgree'
  BY <1>0, <1>1, <1>5, Facts, SkipsKept
<1>11. SilenceAgrees'
  BY <1>0, QuietKept DEF history
<1> QED BY <1>2, <1>6, <1>7, <1>8, <1>9, <1>10, <1>11 DEF Inv, Types

(* The engine changes and nothing else does, or what is heard of it.       *)
LEMMA EngineMovesKeeps ==
  ASSUME Inv, EngineIs(engine', queue), Moves(engine, engine'),
         engine.state = "Stopped" => engine'.state = "Stopped",
         heard' \in Seq(0 .. MaxEntries),
         UNCHANGED <<queue, used, inbox, changed, fan, state, fetches, landing, client,
                     history, empty, requests>>
  PROVE  Inv'
<1>0. Types /\ EntryIsLast /\ SkipsAgree /\ SilenceAgrees
  BY DEF Inv
<1>1. QueueAgrees' /\ RadioAgrees' /\ RequestAgrees' /\ EntryIsLast'
  BY <1>0, QueueKept, RadioKept, RequestKept, EntryKept DEF Types, history
<1>2. EngineAgrees' /\ MailAgrees'
  BY <1>0 DEF Types, EngineAgrees, EngineIs, MailAgrees
<1>3. SkipsAgree'
  BY <1>0, Facts, SkipsKept
<1>4. SilenceAgrees'
  BY <1>0, QuietKept DEF history
<1> QED BY <1>1, <1>2, <1>3, <1>4 DEF Inv, Types

LEMMA LoadKeeps ==
  ASSUME Inv, Load
  PROVE  Inv'
<1>0. Types
  BY DEF Inv
<1>1. engine.state # "Stopped"
  BY <1>0 DEF Types, EngineAgrees, EngineIs, Load
<1>2. CASE engine.load = "next" /\ Follows /\ Starts(queue.items[queue.after + 1])
  <2>1. queue.items[queue.after + 1] \in ToSet(queue.items)
    BY <1>0, <1>2, NextIsAnElement DEF Types
  <2> QED BY <1>1, <1>2, <2>1, StartsKeeps
<1>3. CASE engine.load = "track" /\ engine.wanted \in ToSet(queue.items) /\ Starts(engine.wanted)
  BY <1>1, <1>3, StartsKeeps
<1>4. CASE /\ engine' = Stopped
           /\ UNCHANGED <<queue, used, inbox, heard, changed, fan, state, fetches, landing,
                          client, history, empty, requests>>
  BY <1>0, <1>4, EngineStates, EngineMovesKeeps DEF Types, MailAgrees
<1> QED BY <1>2, <1>3, <1>4 DEF Load

LEMMA FinishKeeps ==
  ASSUME Inv, Finish
  PROVE  Inv'
<1>0. Types
  BY DEF Inv
<1>1. engine.state # "Stopped"
  BY DEF Finish
<1>2. CASE Follows /\ Starts(queue.items[queue.after + 1])
  <2>1. queue.items[queue.after + 1] \in ToSet(queue.items)
    BY <1>0, <1>2, NextIsAnElement DEF Types
  <2> QED BY <1>1, <1>2, <2>1, StartsKeeps
<1>3. CASE /\ engine' = Loading("next", None)
           /\ UNCHANGED <<queue, used, inbox, heard, changed, fan, state, fetches, landing,
                          client, history, empty, requests>>
  BY <1>0, <1>1, <1>3, EngineStates, EngineMovesKeeps DEF Types, MailAgrees
<1> QED BY <1>2, <1>3 DEF Finish

LEMMA DryKeeps ==
  ASSUME Inv, RunDry \/ SayDry \/ StopDry
  PROVE  Inv'
<1>0. Types
  BY DEF Inv
<1>1. engine.state # "Stopped"
  BY <1>0 DEF Types, EngineAgrees, EngineIs, RunDry, SayDry, StopDry
<1>2. \A load \in {"dry", "gone"} :
        EngineIs([engine EXCEPT !.load = load], queue) /\ Moves(engine, [engine EXCEPT !.load = load])
  BY <1>0, <1>1 DEF Types, EngineAgrees, EngineIs, Moves, RunDry, SayDry, StopDry
<1>3. CASE RunDry
  BY <1>0, <1>1, <1>2, <1>3, EngineMovesKeeps DEF RunDry, Types, MailAgrees
<1>4. CASE SayDry
  <2>1. Append(heard, None) \in Seq(0 .. MaxEntries)
    BY <1>0, AutoplayAssumption, AppendProperties DEF Types, MailAgrees, None
  <2> QED BY <1>0, <1>1, <1>2, <1>4, <2>1, EngineMovesKeeps DEF SayDry
<1>5. CASE StopDry
  BY <1>0, <1>1, <1>5, EngineStates, EngineMovesKeeps DEF StopDry, Types, MailAgrees
<1> QED BY <1>3, <1>4, <1>5

---------------------------------------------------------------------------
(* fan_in.                                                                 *)

LEMMA DueIs ==
  ASSUME QueueAgrees, Due # None
  PROVE  /\ Due \in Entries /\ Due = queue.current
         /\ Len(queue.items) > 0 /\ queue.items[Len(queue.items)] = Due
<1>1. Due = queue.current /\ queue.current # None /\ queue.after = Len(queue.items)
  BY DEF Due
<1>2. queue.current \in 0 .. MaxEntries
  BY DEF QueueAgrees, QueueIs
<1>3. queue.current \in Entries
  BY <1>1, <1>2, AutoplayAssumption DEF Entries, None
<1> QED BY <1>1, <1>3 DEF QueueAgrees, QueueIs

Fans == [step : {"idle", "due", "playing"}, entry : 0 .. MaxEntries, early : BOOLEAN]

LEMMA ConsidersIs ==
  ASSUME QueueAgrees
  PROVE  /\ Considers \in Fans /\ Considers.step # "playing"
         /\ Considers.step # "idle" => Considers.entry # None
<1>1. None \in 0 .. MaxEntries /\ Idle \in Fans /\ Idle.step = "idle"
  BY AutoplayAssumption DEF None, Idle, Fans
<1>2. CASE Due = None
  BY <1>1, <1>2 DEF Considers
<1>3. CASE Due # None
  <2>1. Due \in 0 .. MaxEntries
    BY <1>3, DueIs, AutoplayAssumption DEF Entries
  <2>2. Considers = [step |-> "due", entry |-> Due, early |-> FALSE]
    BY <1>3 DEF Considers, Idle
  <2> QED BY <1>3, <2>1, <2>2 DEF Fans
<1> QED BY <1>2, <1>3

(* fan_in moves, and autoplay's state with it, as no radio is begun.       *)
LEMMA FanMovesKeeps ==
  ASSUME Inv, fan' \in Fans, fan'.step # "idle" => fan'.entry # None,
         state' \in [generation : Nat, entry : 0 .. MaxEntries, fetching : BOOLEAN,
                     resume : BOOLEAN, seeded : BOOLEAN],
         state'.generation = state.generation, state'.fetching = state.fetching,
         fan'.step # "playing" \/ fan' = fan \/ fan'.early,
         heard' \in Seq(0 .. MaxEntries), changed' \in BOOLEAN,
         UNCHANGED <<queue, used, engine, inbox, fetches, landing, client, history, empty,
                     requests>>
  PROVE  Inv'
<1>0. Types /\ EntryIsLast /\ SkipsAgree /\ SilenceAgrees
  BY DEF Inv
<1>1. QueueAgrees' /\ EngineAgrees' /\ RequestAgrees' /\ EntryIsLast'
  BY <1>0, QueueKept, EngineKept, RequestKept, EntryKept DEF Types, history
<1>2. MailAgrees'
  BY <1>0 DEF Types, MailAgrees
<1>3. RadioAgrees'
  BY <1>0 DEF Types, RadioAgrees, Fans
<1>4. SkipsAgree'
  BY <1>0, Facts, SkipsKept
<1>5. SilenceAgrees'
  <2>1. Quiet => Quiet'
    BY DEF Quiet
  <2> QED BY <1>0, <2>1 DEF SilenceAgrees, history
<1> QED BY <1>1, <1>2, <1>3, <1>4, <1>5 DEF Inv, Types

LEMMA HearStartedKeeps ==
  ASSUME Inv, HearStarted
  PROVE  Inv'
<1>0. Types
  BY DEF Inv
<1>1. /\ Considers \in Fans /\ Considers.step # "playing"
      /\ Considers.step # "idle" => Considers.entry # None
  BY <1>0, ConsidersIs DEF Types
<1>2. Tail(heard) \in Seq(0 .. MaxEntries)
  BY <1>0, HeadTailProperties DEF Types, MailAgrees, HearStarted
<1>3. /\ state' \in [generation : Nat, entry : 0 .. MaxEntries, fetching : BOOLEAN,
                     resume : BOOLEAN, seeded : BOOLEAN]
      /\ state'.generation = state.generation /\ state'.fetching = state.fetching
  <2>1. state' = [state EXCEPT !.seeded = @ \/ Head(heard) \in ToSet(queue.items) \ Local]
    BY DEF HearStarted
  <2>2. state \in [generation : Nat, entry : 0 .. MaxEntries, fetching : BOOLEAN,
                   resume : BOOLEAN, seeded : BOOLEAN]
    BY <1>0 DEF Types, RadioAgrees
  <2> QED BY <2>1, <2>2, Zenon
<1> QED BY <1>0, <1>1, <1>2, <1>3, FanMovesKeeps DEF HearStarted, Types, MailAgrees

LEMMA HearDryKeeps ==
  ASSUME Inv, HearDry
  PROVE  Inv'
<1>0. Types
  BY DEF Inv
<1>1. fan \in Fans /\ (fan.step # "idle" => fan.entry # None)
  BY <1>0 DEF Types, RadioAgrees, Fans
<1>2. Tail(heard) \in Seq(0 .. MaxEntries)
  BY <1>0, HeadTailProperties DEF Types, MailAgrees, HearDry
<1>3. /\ state' \in [generation : Nat, entry : 0 .. MaxEntries, fetching : BOOLEAN,
                     resume : BOOLEAN, seeded : BOOLEAN]
      /\ state'.generation = state.generation /\ state'.fetching = state.fetching
  <2>1. state' = [state EXCEPT !.resume = @ \/ (state.fetching /\ state.entry = queue.current)]
    BY DEF HearDry
  <2>2. state \in [generation : Nat, entry : 0 .. MaxEntries, fetching : BOOLEAN,
                   resume : BOOLEAN, seeded : BOOLEAN]
    BY <1>0 DEF Types, RadioAgrees
  <2> QED BY <2>1, <2>2, Zenon
<1> QED BY <1>0, <1>1, <1>2, <1>3, FanMovesKeeps DEF HearDry, Types, MailAgrees

LEMMA HearChangeKeeps ==
  ASSUME Inv, HearChange
  PROVE  Inv'
<1>0. Types
  BY DEF Inv
<1>1. /\ Considers \in Fans /\ Considers.step # "playing"
      /\ Considers.step # "idle" => Considers.entry # None
  BY <1>0, ConsidersIs DEF Types
<1> QED BY <1>0, <1>1, FanMovesKeeps DEF HearChange, Types, MailAgrees, RadioAgrees

(* Something plays although silence was asked for: then a Stop is to come, *)
(* or something begun earlier goes on.                                     *)
LEMMA ConsiderKeeps ==
  ASSUME Inv, Consider
  PROVE  Inv'
<1>0. Types /\ SilenceAgrees
  BY DEF Inv
<1>1. fan \in Fans /\ fan.entry # None
  BY <1>0 DEF Types, RadioAgrees, Fans, Consider
<1>2. CASE engine.state = "Stopped"
  <2>1. fan' = Idle /\ Idle \in Fans /\ Idle.step = "idle"
    BY <1>2, AutoplayAssumption DEF Consider, Idle, Fans, None
  <2> QED BY <1>0, <2>1, FanMovesKeeps DEF Consider, player, Types, MailAgrees, RadioAgrees
<1>3. CASE engine.state # "Stopped"
  <2>1. fan' = [fan EXCEPT !.step = "playing", !.early = early \/ StopIsToCome]
    BY <1>3 DEF Consider
  <2>2. early \/ StopIsToCome
    <3>1. SUFFICES ASSUME silent, ~early, client.step \notin {"clearing", "commanding"}
                   PROVE  StopPending
      BY DEF StopIsToCome
    <3>2. Len(inbox) > 0 /\ inbox[Len(inbox)].what = "stop"
      BY <1>0, <1>3, <3>1 DEF SilenceAgrees, Quiet
    <3>3. Len(inbox) \in Nat /\ DOMAIN inbox = 1 .. Len(inbox)
      BY <1>0, LenProperties DEF Types, MailAgrees
    <3>4. Len(inbox) \in DOMAIN inbox
      BY <3>2, <3>3
    <3> QED BY <3>2, <3>4 DEF StopPending
  <2>3. fan' = [fan EXCEPT !.step = "playing", !.early = TRUE]
    BY <2>1, <2>2
  <2>4. fan' \in Fans /\ fan'.entry # None /\ fan'.early
    BY <1>1, <2>3 DEF Fans
  <2> QED BY <1>0, <2>4, FanMovesKeeps DEF Consider, player, Types, MailAgrees, RadioAgrees
<1> QED BY <1>2, <1>3

States == [generation : Nat, entry : 0 .. MaxEntries, fetching : BOOLEAN,
           resume : BOOLEAN, seeded : BOOLEAN]

(* What is begun while silence was asked for is begun on an engine that    *)
(* played, which is what "early" notes.                                    *)
LEMMA BeginRadioKeeps ==
  ASSUME Inv, BeginRadio
  PROVE  Inv'
<1>0. Types /\ EntryIsLast /\ SkipsAgree /\ SilenceAgrees
  BY DEF Inv
<1>1. QueueAgrees' /\ EngineAgrees' /\ MailAgrees' /\ EntryIsLast'
  BY <1>0, QueueKept, EngineKept, MailKept, EntryKept DEF Types, BeginRadio, player
<1>2. SkipsAgree'
  BY <1>0, Facts, SkipsKept DEF BeginRadio, player
<1>3. Idle \in Fans /\ Idle.step = "idle" /\ fan' = Idle
  BY AutoplayAssumption DEF BeginRadio, Idle, Fans, None
<1>4. fan \in Fans /\ fan.entry # None /\ fan.early /\ fan.entry \in Entries
  <2>1. fan \in Fans /\ fan.entry # None /\ fan.early
    BY <1>0 DEF Types, RadioAgrees, SilenceAgrees, Fans, BeginRadio
  <2> QED BY <2>1, AutoplayAssumption DEF Fans, Entries, None
<1>5. state \in States /\ fetches \subseteq [entry : Entries, generation : 0 .. state.generation]
  BY <1>0 DEF Types, RadioAgrees, States
<1>6. /\ Begin(fan.entry) \in States /\ Begin(fan.entry).generation = state.generation + 1
      /\ [Begin(fan.entry) EXCEPT !.fetching = FALSE] \in States
      /\ [Begin(fan.entry) EXCEPT !.fetching = FALSE].generation = state.generation + 1
  <2>1. state.generation + 1 \in Nat
    BY <1>5 DEF States
  <2>2. fan.entry \in 0 .. MaxEntries
    BY <1>4 DEF Fans
  <2>3. state \in States
    BY <1>5
  <2>4. ASSUME NEW r \in States, NEW g \in Nat, NEW e \in 0 .. MaxEntries,
               NEW b \in BOOLEAN
        PROVE  LET new == [r EXCEPT !.generation = g, !.entry = e, !.fetching = b,
                                    !.resume = FALSE]
               IN new \in States /\ new.generation = g
    BY Zenon DEF States
  <2>5. ASSUME NEW r \in States
        PROVE  LET new == [r EXCEPT !.fetching = FALSE]
               IN new \in States /\ new.generation = r.generation
    BY Zenon DEF States
  <2>6. /\ Begin(fan.entry) \in States
        /\ Begin(fan.entry).generation = state.generation + 1
    BY <2>1, <2>2, <2>3, <2>4 DEF Begin
  <2> QED BY <2>5, <2>6
<1>7. /\ state' \in States
      /\ fetches' \subseteq [entry : Entries, generation : 0 .. state'.generation]
      /\ early' \in BOOLEAN
      /\ \/ state' = state /\ early' = early
         \/ silent => early'
  <2>0. silent \in BOOLEAN /\ early \in BOOLEAN
    BY <1>0 DEF Types, RequestAgrees
  <2>1. CASE UNCHANGED <<state, fetches, early>>
    BY <2>0, <2>1, <1>5
  <2>2. CASE /\ early' = (early \/ (silent /\ fan.early))
             /\ state' = Begin(fan.entry)
             /\ fetches' = fetches \cup
                  {[entry |-> fan.entry, generation |-> state.generation + 1]}
    <3>1. early' \in BOOLEAN /\ (silent => early')
      BY <2>0, <2>2, <1>4
    <3>2. 0 .. state.generation \subseteq 0 .. (state.generation + 1)
          /\ state.generation + 1 \in 0 .. (state.generation + 1)
      BY <1>5 DEF States
    <3>3. fetches' \subseteq [entry : Entries, generation : 0 .. (state.generation + 1)]
      BY <2>2, <3>2, <1>4, <1>5
    <3> QED BY <2>2, <3>1, <3>3, <1>6
  <2>3. CASE /\ early' = (early \/ (silent /\ fan.early))
             /\ state' = [Begin(fan.entry) EXCEPT !.fetching = FALSE]
             /\ fetches' = fetches
    <3>1. early' \in BOOLEAN /\ (silent => early')
      BY <2>0, <2>3, <1>4
    <3>2. 0 .. state.generation \subseteq 0 .. (state.generation + 1)
      BY <1>5 DEF States
    <3>3. fetches' \subseteq [entry : Entries, generation : 0 .. (state.generation + 1)]
      BY <2>3, <3>2, <1>5
    <3> QED BY <2>3, <3>1, <3>3, <1>6
  <2> QED BY <2>1, <2>2, <2>3 DEF BeginRadio
<1>8. RadioAgrees'
  BY <1>0, <1>3, <1>7 DEF Types, RadioAgrees, States, Fans, BeginRadio
<1>9. RequestAgrees'
  BY <1>0, <1>7 DEF Types, RequestAgrees, BeginRadio
<1>10. SilenceAgrees'
  <2>1. UNCHANGED <<landing, client, inbox, engine, silent>>
    BY DEF BeginRadio, player
  <2>2. ASSUME silent', ~early' PROVE Quiet'
    <3>1. state' = state /\ early' = early
      BY <2>1, <2>2, <1>7
    <3>2. Quiet
      BY <2>1, <2>2, <3>1, <1>0 DEF SilenceAgrees
    <3> QED BY <2>1, <3>1, <3>2 DEF Quiet
  <2> QED BY <2>2, <1>3 DEF SilenceAgrees
<1> QED BY <1>1, <1>2, <1>8, <1>9, <1>10 DEF Inv, Types

---------------------------------------------------------------------------
(* A radio lands and is added.                                             *)

Landings == [step : Steps, entry : 0 .. MaxEntries, resume : BOOLEAN]

(* A radio that is not wanted, which none is in silence, changes nothing.  *)
LEMMA LandKeeps ==
  ASSUME Inv, Land
  PROVE  Inv'
<1>0. Types /\ EntryIsLast /\ SkipsAgree /\ SilenceAgrees
  BY DEF Inv
<1>1. QueueAgrees' /\ EngineAgrees' /\ MailAgrees'
  BY <1>0, QueueKept, EngineKept, MailKept DEF Types, Land, player
<1>2. SkipsAgree'
  BY <1>0, Facts, SkipsKept DEF Land, player
<1>3. client.step = "idle" /\ client' = client
  BY DEF Land, LockFree
<1>4. state \in States /\ fetches \subseteq [entry : Entries, generation : 0 .. state.generation]
      /\ fetches' \subseteq fetches /\ landing \in Landings /\ landing.step = "none"
  BY <1>0 DEF Types, RadioAgrees, States, Landings, Land, LockFree
<1>5. /\ state' \in States /\ state'.generation = state.generation
      /\ landing' \in Landings /\ landing'.step \in {"none", "landed"}
      /\ landing'.step # "none" => landing'.entry # None
      /\ empty' \in BOOLEAN
      /\ (state' = state /\ landing' = landing) \/ state.fetching
  <2>0. NoLanding \in Landings /\ NoLanding.step = "none" /\ empty \in BOOLEAN
    BY <1>0, AutoplayAssumption DEF NoLanding, Landings, Steps, None, Types, RequestAgrees
  <2>1. PICK fetch \in fetches, brings \in BOOLEAN :
          \/ UNCHANGED <<state, landing, empty>>
          \/ /\ state.fetching
             /\ state' = [state EXCEPT !.fetching = FALSE, !.resume = FALSE]
             /\ landing' \in {NoLanding, [step |-> "landed", entry |-> fetch.entry,
                                          resume |-> Finished(fetch).resume]}
             /\ empty' = (empty \/ ~brings)
    BY Zenon DEF Land, Finished
  <2>2. CASE UNCHANGED <<state, landing, empty>>
    BY <2>0, <2>2, <1>4
  <2>3. CASE /\ state.fetching
             /\ state' = [state EXCEPT !.fetching = FALSE, !.resume = FALSE]
             /\ landing' \in {NoLanding, [step |-> "landed", entry |-> fetch.entry,
                                          resume |-> Finished(fetch).resume]}
             /\ empty' = (empty \/ ~brings)
    <3>1. state' \in States /\ state'.generation = state.generation
      BY <2>3, <1>4 DEF States
    <3>2. empty' \in BOOLEAN
      BY <2>0, <2>3
    <3>3. fetch.entry \in 0 .. MaxEntries /\ fetch.entry # None
      BY <1>4, AutoplayAssumption DEF Entries, None
    <3>4. Finished(fetch).resume \in BOOLEAN
      BY <1>4 DEF Finished, States
    <3>5. [step |-> "landed", entry |-> fetch.entry, resume |-> Finished(fetch).resume]
            \in Landings
      BY <3>3, <3>4 DEF Landings, Steps
    <3> QED BY <2>0, <2>3, <3>1, <3>2, <3>3, <3>5
  <2> QED BY <2>1, <2>2, <2>3
<1>6. RadioAgrees'
  <2>1. fetches' \subseteq [entry : Entries, generation : 0 .. state'.generation]
    BY <1>4, <1>5
  <2> QED BY <2>1, <1>0, <1>5 DEF Types, RadioAgrees, States, Landings, Land
<1>7. RequestAgrees'
  BY <1>0, <1>3, <1>5 DEF Types, RequestAgrees, Land, history
<1>8. EntryIsLast'
  BY <1>5 DEF EntryIsLast
<1>9. SilenceAgrees'
  <2>1. UNCHANGED <<client, inbox, engine, silent, early, fan>>
    BY DEF Land, player, history
  <2>2. ASSUME Quiet PROVE Quiet'
    <3>1. state' = state /\ landing' = landing
      BY <2>2, <1>5 DEF Quiet
    <3> QED BY <2>1, <2>2, <3>1 DEF Quiet
  <2> QED BY <2>1, <2>2, <1>0 DEF SilenceAgrees
<1> QED BY <1>1, <1>2, <1>6, <1>7, <1>8, <1>9 DEF Inv, Types

(* The radio that landed goes on to be added or not, and its entry is the  *)
(* last when it does.                                                      *)
LEMMA LandingMovesKeeps ==
  ASSUME Inv, landing.step # "none",
         landing' \in {NoLanding, [landing EXCEPT !.step = "due"],
                       [landing EXCEPT !.step = "wanted"]},
         landing'.step \in {"due", "wanted"} =>
           Len(queue.items) > 0 /\ queue.items[Len(queue.items)] = landing.entry,
         inbox' \in Seq(Commands),
         \A i \in DOMAIN inbox' :
           (\E j \in DOMAIN inbox : inbox'[i] = inbox[j]) \/ inbox'[i].what # "next",
         UNCHANGED <<player, fan, state, fetches, client, history, empty, requests>>
  PROVE  Inv'
<1>0. Types /\ EntryIsLast /\ SkipsAgree /\ SilenceAgrees
  BY DEF Inv
<1>1. QueueAgrees' /\ EngineAgrees' /\ MailAgrees'
  BY <1>0, QueueKept, EngineKept DEF Types, player, MailAgrees
<1>2. SkipsAgree'
  BY <1>0, Facts, SkipsKept DEF player
<1>3. landing \in Landings /\ landing.entry # None /\ NoLanding \in Landings
      /\ NoLanding.step = "none" /\ client.step = "idle"
  BY <1>0, AutoplayAssumption
     DEF Types, RadioAgrees, RequestAgrees, Landings, NoLanding, Steps, None
<1>4. /\ landing' \in Landings /\ (landing'.step # "none" => landing'.entry = landing.entry)
      /\ landing'.step \in {"none", "due", "wanted"}
  BY <1>3 DEF Landings, Steps
<1>5. RadioAgrees'
  BY <1>0, <1>3, <1>4 DEF Types, RadioAgrees, Landings
<1>6. RequestAgrees'
  BY <1>0, <1>3, RequestKept DEF Types, history
<1>7. EntryIsLast'
  BY <1>4 DEF EntryIsLast, player
<1>8. SilenceAgrees'
  BY <1>0 DEF SilenceAgrees, Quiet, history
<1> QED BY <1>1, <1>2, <1>5, <1>6, <1>7, <1>8 DEF Inv, Types

LEMMA RecheckKeeps ==
  ASSUME Inv, Recheck
  PROVE  Inv'
<1>0. Types
  BY DEF Inv
<1>1. landing.entry # None
  BY <1>0 DEF Types, RadioAgrees, Recheck
<1>2. Due = landing.entry =>
        Len(queue.items) > 0 /\ queue.items[Len(queue.items)] = landing.entry
  BY <1>0, <1>1, DueIs DEF Types
<1>3. landing' = NoLanding \/ (Due = landing.entry /\ landing' = [landing EXCEPT !.step = "due"])
  BY DEF Recheck
<1>4. NoLanding.step = "none"
  BY DEF NoLanding
<1> QED BY <1>0, <1>2, <1>3, <1>4, LandingMovesKeeps DEF Recheck, Types, MailAgrees

LEMMA RecheckStateKeeps ==
  ASSUME Inv, RecheckState
  PROVE  Inv'
<1>0. Types /\ EntryIsLast
  BY DEF Inv
<1> QED BY <1>0, LandingMovesKeeps DEF RecheckState, EntryIsLast, Types, MailAgrees

LEMMA AppendedCommands ==
  ASSUME NEW s \in Seq(Commands), NEW c \in Commands
  PROVE  /\ Append(s, c) \in Seq(Commands) /\ Len(Append(s, c)) > 0
         /\ Append(s, c)[Len(Append(s, c))] = c
         /\ \A i \in DOMAIN Append(s, c) :
              (\E j \in DOMAIN s : Append(s, c)[i] = s[j]) \/ Append(s, c)[i] = c
<1>1. Len(s) \in Nat /\ DOMAIN s = 1 .. Len(s)
  BY LenProperties
<1>2. /\ Append(s, c) \in Seq(Commands) /\ Len(Append(s, c)) = Len(s) + 1
      /\ \A i \in 1 .. Len(s) : Append(s, c)[i] = s[i]
      /\ Append(s, c)[Len(s) + 1] = c
  BY AppendProperties
<1>3. DOMAIN Append(s, c) = 1 .. (Len(s) + 1)
  BY <1>2, LenProperties
<1> QED BY <1>1, <1>2, <1>3

LEMMA PlayRadioKeeps ==
  ASSUME Inv, PlayRadio
  PROVE  Inv'
<1>0. Types
  BY DEF Inv
<1>1. inbox \in Seq(Commands) /\ landing.entry \in 0 .. MaxEntries
  BY <1>0 DEF Types, MailAgrees, RadioAgrees
<1> DEFINE c == [what |-> "play", id |-> landing.entry, starts |-> 0]
<1>2. c \in Commands /\ c.what # "next"
  BY <1>1 DEF Commands
<1>3. inbox' = inbox \/ inbox' = Append(inbox, c)
  BY DEF PlayRadio
<1>4. NoLanding.step = "none"
  BY DEF NoLanding
<1> HIDE DEF c
<1>5. /\ inbox' \in Seq(Commands)
      /\ \A i \in DOMAIN inbox' :
           (\E j \in DOMAIN inbox : inbox'[i] = inbox[j]) \/ inbox'[i].what # "next"
  <2>1. CASE inbox' = inbox
    BY <2>1, <1>1
  <2>2. CASE inbox' = Append(inbox, c)
    BY <2>2, <1>1, <1>2, AppendedCommands
  <2> QED BY <2>1, <2>2, <1>3
<1>6. /\ landing.step # "none" /\ landing' = NoLanding
      /\ UNCHANGED <<player, fan, state, fetches, client, history, empty, requests>>
  BY DEF PlayRadio
<1> QED BY <1>4, <1>5, <1>6, LandingMovesKeeps

(* A new entry goes last, whoever adds it: nothing that was removed is it. *)
LEMMA AddedKeeps ==
  ASSUME Inv, used < MaxEntries, used' = used + 1, queue' = Appended,
         UNCHANGED <<engine, heard, inbox, fan, state, fetches, client, history, empty>>,
         landing' \in Landings,
         landing'.step \in {"none", "added"},
         landing'.step # "none" => landing.step # "none" /\ landing'.entry # None,
         changed' = TRUE, requests' \in {requests, requests + 1}
  PROVE  Inv'
<1>0. Types /\ EntryIsLast /\ SkipsAgree /\ SilenceAgrees
  BY DEF Inv
<1>1. /\ QueueIs(queue', used')
      /\ ToSet(queue'.items) \subseteq ToSet(queue.items) \cup {used + 1}
      /\ ToSet(queue.items) \subseteq ToSet(queue'.items)
      /\ queue'.current = queue.current
  BY <1>0, Facts, AppendedIs
<1>2. QueueAgrees'
  BY <1>1 DEF QueueAgrees, QueueIs
<1>3. EngineAgrees'
  BY <1>0, <1>1, EngineKept DEF Types
<1>4. MailAgrees'
  BY <1>0 DEF Types, MailAgrees
<1>5. RadioAgrees'
  BY <1>0 DEF Types, RadioAgrees, Landings
<1>6. RequestAgrees'
  BY <1>0 DEF Types, RequestAgrees, history
<1>7. EntryIsLast'
  BY DEF EntryIsLast
<1>8. SkipsAgree'
  <2>1. used \in Nat /\ used' \in Nat /\ used <= used' /\ used + 1 \in (used + 1) .. used'
    BY <1>0, Facts
  <2>2. ToSet(queue'.items) \subseteq ToSet(queue.items) \cup (used + 1) .. used'
    BY <2>1, <1>1
  <2>3. Moves(engine, engine')
    BY <1>0, Facts
  <2> QED BY <1>0, <1>1, <2>1, <2>2, <2>3, SkipsKept
<1>9. SilenceAgrees'
  <2>1. ASSUME Quiet PROVE Quiet'
    <3>1. landing'.step = "none"
      BY <2>1 DEF Quiet
    <3> QED BY <2>1, <3>1 DEF Quiet
  <2> QED BY <2>1, <1>0 DEF SilenceAgrees, history
<1> QED BY <1>2, <1>3, <1>4, <1>5, <1>6, <1>7, <1>8, <1>9 DEF Inv, Types

LEMMA AddRadioKeeps ==
  ASSUME Inv, AddRadio
  PROVE  Inv'
<1>0. Types
  BY DEF Inv
<1>1. landing \in Landings /\ used + 1 \in 0 .. MaxEntries /\ used + 1 # None
  <2>1. used \in Nat /\ MaxEntries \in Nat /\ used < MaxEntries
    BY <1>0, Facts, AutoplayAssumption DEF AddRadio
  <2> QED BY <2>1, <1>0 DEF Types, RadioAgrees, Landings, None
<1>2. NoLanding \in Landings /\ NoLanding.step = "none"
  BY AutoplayAssumption DEF NoLanding, Landings, Steps, None
<1>3. landing' = NoLanding \/ landing' = [landing EXCEPT !.step = "added", !.entry = used + 1]
  BY DEF AddRadio
<1>4. /\ landing' \in Landings /\ landing'.step \in {"none", "added"}
      /\ landing'.step # "none" => landing'.entry # None
  BY <1>1, <1>2, <1>3 DEF Landings, Steps
<1>5. /\ used < MaxEntries /\ used' = used + 1 /\ queue' = Appended /\ landing.step # "none"
      /\ changed' = TRUE
      /\ UNCHANGED <<engine, heard, inbox, fan, state, fetches, client, history, empty, requests>>
  BY DEF AddRadio
<1> QED BY <1>4, <1>5, AddedKeeps

---------------------------------------------------------------------------
(* The requests of clients.                                                *)

LEMMA AskToAddKeeps ==
  ASSUME Inv, AskToAdd
  PROVE  Inv'
<1>0. landing \in Landings /\ landing.step = "none" /\ landing' = landing
  BY DEF Inv, Types, RadioAgrees, Landings, AskToAdd, Asks, LockFree
<1> QED BY <1>0, AddedKeeps DEF AskToAdd, Asks

(* What a request leaves alone when it only sends a command.               *)
LEMMA AskToPlayKeeps ==
  ASSUME Inv, AskToPlay
  PROVE  Inv'
<1>0. Types /\ EntryIsLast /\ SkipsAgree /\ SilenceAgrees
  BY DEF Inv
<1>1. PICK c \in Commands : inbox' = Append(inbox, c) /\ (c.what # "next" \/ c.id = None)
  <2>1. CASE \E id \in ToSet(queue.items) : Command("play", id, 0)
    <3>1. PICK id \in ToSet(queue.items) : Command("play", id, 0)
      BY <2>1
    <3>2. id \in 0 .. MaxEntries
      BY <1>0, Facts, ElementsAreEntries, AutoplayAssumption DEF Entries
    <3>3. [what |-> "play", id |-> id, starts |-> 0] \in Commands
      BY <3>2 DEF Commands
    <3> QED BY <3>1, <3>3 DEF Command
  <2>2. CASE \E what \in {"start", "next"} : Command(what, None, 0)
    <3>1. PICK what \in {"start", "next"} : Command(what, None, 0)
      BY <2>2
    <3>2. [what |-> what, id |-> None, starts |-> 0] \in Commands
      BY AutoplayAssumption DEF Commands, None
    <3> QED BY <3>1, <3>2 DEF Command
  <2> QED BY <2>1, <2>2 DEF AskToPlay
<1>2. inbox \in Seq(Commands)
  BY <1>0 DEF Types, MailAgrees
<1>3. /\ inbox' \in Seq(Commands)
      /\ \A i \in DOMAIN inbox' :
           \/ \E j \in DOMAIN inbox : inbox'[i] = inbox[j]
           \/ inbox'[i].what # "next" \/ inbox'[i].id = None
  <2>1. \A i \in DOMAIN inbox' : (\E j \in DOMAIN inbox : inbox'[i] = inbox[j]) \/ inbox'[i] = c
    BY <1>1, <1>2, AppendedCommands
  <2>2. inbox' \in Seq(Commands)
    BY <1>1, <1>2, AppendedCommands
  <2> QED BY <1>1, <2>1, <2>2
<1>4. QueueAgrees' /\ EngineAgrees' /\ RadioAgrees' /\ EntryIsLast'
  BY <1>0, QueueKept, EngineKept, RadioKept, EntryKept DEF Types, AskToPlay, player
<1>5. MailAgrees'
  BY <1>0, <1>3 DEF Types, MailAgrees, AskToPlay, player
<1>6. RequestAgrees'
  <2>1. requests' \in Nat /\ empty' \in BOOLEAN /\ UNCHANGED <<client, landing>>
    BY <1>0 DEF Types, RequestAgrees, AskToPlay, Asks
  <2>2. silent' \in BOOLEAN /\ early' \in BOOLEAN
    BY DEF AskToPlay
  <2> QED BY <2>1, <2>2, <1>0 DEF Types, RequestAgrees
<1>7. SkipsAgree'
  BY <1>0, <1>3, Facts, SkipsKept DEF AskToPlay, player
<1>8. SilenceAgrees'
  BY <1>0 DEF SilenceAgrees, AskToPlay
<1> QED BY <1>4, <1>5, <1>6, <1>7, <1>8 DEF Inv, Types

Clients == [step : {"idle", "clearing", "commanding", "removing", "skipping"},
            what : {"none", "stop", "clear"}, id : 0 .. MaxEntries,
            playing : 0 .. MaxEntries, starts : Nat]

LEMMA NoRequestIs == NoRequest \in Clients /\ NoRequest.step = "idle"
BY AutoplayAssumption DEF NoRequest, Clients, None

(* Silence is asked for: autoplay is called off, and nothing is landing.   *)
LEMMA AskForSilenceKeeps ==
  ASSUME Inv, AskForSilence
  PROVE  Inv'
<1>0. Types /\ EntryIsLast /\ SkipsAgree /\ SilenceAgrees
  BY DEF Inv
<1>1. client' \in Clients /\ client'.step \in {"clearing", "commanding"}
  <2>1. PICK what \in {"stop", "clear"} :
          client' = [NoRequest EXCEPT !.step = IF what = "stop" THEN "commanding" ELSE "clearing",
                                      !.what = what]
    BY DEF AskForSilence
  <2> QED BY <2>1, NoRequestIs DEF Clients
<1>2. state' \in States /\ state'.generation = state.generation + 1 /\ ~state'.fetching
  <2>1. state \in States
    BY <1>0 DEF Types, RadioAgrees, States
  <2>2. state' = [generation |-> state.generation + 1, entry |-> None, fetching |-> FALSE,
                  resume |-> FALSE, seeded |-> state.seeded]
    BY <2>1 DEF AskForSilence, Cancel, States
  <2>3. state.generation + 1 \in Nat /\ None \in 0 .. MaxEntries /\ state.seeded \in BOOLEAN
    BY <2>1, AutoplayAssumption DEF States, None
  <2> QED BY <2>2, <2>3 DEF States
<1>3. QueueAgrees' /\ EngineAgrees' /\ MailAgrees' /\ EntryIsLast'
  BY <1>0, QueueKept, EngineKept, MailKept, EntryKept DEF Types, AskForSilence, player
<1>4. RadioAgrees'
  <2>1. state.generation \in Nat /\ fetches' = fetches
        /\ fetches \subseteq [entry : Entries, generation : 0 .. state.generation]
    BY <1>0 DEF Types, RadioAgrees, AskForSilence
  <2>2. 0 .. state.generation \subseteq 0 .. (state.generation + 1)
    BY <2>1
  <2>3. fetches' \subseteq [entry : Entries, generation : 0 .. state'.generation]
    BY <1>2, <2>1, <2>2
  <2> QED BY <2>3, <1>0, <1>2 DEF Types, RadioAgrees, States, AskForSilence
<1>5. RequestAgrees'
  <2>1. requests' \in Nat /\ empty' \in BOOLEAN /\ landing'.step = "none"
    BY <1>0 DEF Types, RequestAgrees, AskForSilence, Asks, LockFree
  <2>2. silent' \in BOOLEAN /\ early' \in BOOLEAN
    BY DEF AskForSilence
  <2> QED BY <2>1, <2>2, <1>1 DEF RequestAgrees, Clients
<1>6. SkipsAgree'
  BY <1>0, <1>1, Facts, SkipsKept DEF AskForSilence, player
<1>7. SilenceAgrees'
  BY <1>0, <1>1, <1>2 DEF SilenceAgrees, Quiet, AskForSilence, Asks, LockFree
<1> QED BY <1>3, <1>4, <1>5, <1>6, <1>7 DEF Inv, Types

LEMMA ClearQueueKeeps ==
  ASSUME Inv, ClearQueue
  PROVE  Inv'
<1>0. Types /\ EntryIsLast /\ SkipsAgree /\ SilenceAgrees
  BY DEF Inv
<1>1. client \in Clients /\ client' = [client EXCEPT !.step = "commanding"]
      /\ client.step = "clearing" /\ landing.step = "none"
  BY <1>0 DEF Types, RequestAgrees, Clients, ClearQueue
<1>2. /\ queue'.items = <<>> /\ queue'.current = None /\ queue'.after = 0
      /\ queue'.autoplay \in BOOLEAN
      /\ queue' \in [items : Seq(Entries), current : 0 .. MaxEntries, after : Nat,
                     autoplay : BOOLEAN]
  <2>1. <<>> \in Seq(Entries) /\ None \in 0 .. MaxEntries
    BY AutoplayAssumption DEF None
  <2> QED BY <2>1, <1>0 DEF Types, QueueAgrees, QueueIs, ClearQueue
<1>3. ToSet(queue'.items) = {} /\ Distinct(queue'.items) /\ Len(queue'.items) = 0
  BY <1>2 DEF ToSet, Distinct
<1>4. QueueAgrees'
  BY <1>0, <1>2, <1>3 DEF Types, QueueAgrees, QueueIs, ClearQueue
<1>5. EngineAgrees' /\ MailAgrees' /\ RadioAgrees'
  BY <1>0, <1>2, EngineKept, MailKept, RadioKept DEF Types, ClearQueue
<1>6. RequestAgrees'
  BY <1>0, <1>1 DEF Types, RequestAgrees, Clients, ClearQueue, history
<1>7. EntryIsLast'
  BY <1>1, EntryKept, <1>0 DEF ClearQueue
<1>8. SkipsAgree'
  <2>1. used' = used /\ used \in Nat /\ used <= used'
    BY <1>0, Facts DEF ClearQueue
  <2>2. ToSet(queue'.items) \subseteq ToSet(queue.items) \cup (used + 1) .. used'
    BY <1>3
  <2>3. client'.step \notin {"removing", "skipping"} /\ client.step # "removing"
    BY <1>1 DEF Clients
  <2>4. Moves(engine, engine') /\ inbox' = inbox
    BY <1>0, Facts DEF ClearQueue
  <2> QED BY <1>0, <2>1, <2>2, <2>3, <2>4, SkipsKept
<1>9. SilenceAgrees'
  <2>1. client'.step = "commanding"
    BY <1>1 DEF Clients
  <2> QED BY <2>1, <1>0 DEF SilenceAgrees, Quiet, ClearQueue, history
<1> QED BY <1>4, <1>5, <1>6, <1>7, <1>8, <1>9 DEF Inv, Types

(* A request ends with a command.                                          *)
LEMMA CommandKeeps ==
  ASSUME Inv, NEW c \in Commands, inbox' = Append(inbox, c), client' = NoRequest,
         \/ c.what # "next"
         \/ client.step = "skipping" /\ c.id = client.id /\ c.starts = client.starts,
         c.what = "stop" \/ client.step = "skipping",
         UNCHANGED <<player, fan, state, fetches, landing, history, empty, requests>>
  PROVE  Inv'
<1>0. Types /\ EntryIsLast /\ SkipsAgree /\ SilenceAgrees
  BY DEF Inv
<1>1. inbox \in Seq(Commands) /\ NoRequest \in Clients /\ NoRequest.step = "idle"
  BY <1>0, NoRequestIs DEF Types, MailAgrees
<1>2. /\ inbox' \in Seq(Commands) /\ Len(inbox') > 0 /\ inbox'[Len(inbox')] = c
      /\ \A i \in DOMAIN inbox' : (\E j \in DOMAIN inbox : inbox'[i] = inbox[j]) \/ inbox'[i] = c
  BY <1>1, AppendedCommands
<1>3. QueueAgrees' /\ EngineAgrees' /\ RadioAgrees' /\ EntryIsLast'
  BY <1>0, QueueKept, EngineKept, RadioKept, EntryKept DEF Types, player
<1>4. MailAgrees'
  BY <1>0, <1>2 DEF Types, MailAgrees, player
<1>5. RequestAgrees'
  BY <1>0, <1>1 DEF Types, RequestAgrees, Clients, history
<1>6. SkipsAgree'
  <2>1. \A i \in DOMAIN inbox' :
          \/ \E j \in DOMAIN inbox : inbox'[i] = inbox[j]
          \/ inbox'[i].what # "next" \/ inbox'[i].id = None
          \/ /\ client.step = "skipping"
             /\ inbox'[i].id = client.id /\ inbox'[i].starts = client.starts
    BY <1>2
  <2>2. client'.step \notin {"removing", "skipping"}
    BY <1>1
  <2>3. Moves(engine, engine') /\ queue' = queue /\ used' = used
    BY <1>0, Facts DEF player
  <2>4. used \in Nat /\ used <= used'
    BY <1>0, <2>3, Facts
  <2> QED BY <1>0, <2>1, <2>2, <2>3, <2>4, SkipsKept
<1>7. SilenceAgrees'
  BY <1>0, <1>1, <1>2 DEF SilenceAgrees, Quiet, history
<1> QED BY <1>3, <1>4, <1>5, <1>6, <1>7 DEF Inv, Types

LEMMA CommandStopKeeps ==
  ASSUME Inv, CommandStop
  PROVE  Inv'
<1>1. [what |-> "stop", id |-> None, starts |-> 0] \in Commands
  BY AutoplayAssumption DEF Commands, None
<1> QED BY <1>1, CommandKeeps DEF CommandStop, Command

LEMMA SkipKeeps ==
  ASSUME Inv, Skip
  PROVE  Inv'
<1>1. client.id \in 0 .. MaxEntries /\ client.starts \in Nat
  BY DEF Inv, Types, RequestAgrees
<1>2. [what |-> "next", id |-> client.id, starts |-> client.starts] \in Commands
  BY <1>1 DEF Commands
<1> QED BY <1>2, CommandKeeps DEF Skip, Command

(* What plays is looked at: were it silent, a Stop would have to be on its *)
(* way.                                                                    *)
LEMMA AskToRemoveKeeps ==
  ASSUME Inv, AskToRemove
  PROVE  Inv'
<1>0. Types /\ EntryIsLast /\ SkipsAgree /\ SilenceAgrees
  BY DEF Inv
<1>1. PICK id \in ToSet(queue.items) :
        /\ client' = [NoRequest EXCEPT !.step = "removing", !.id = id, !.playing = PlayingEntry,
                                       !.starts = engine.starts]
        /\ early' = (early \/ (silent /\ StopPending /\ PlayingEntry = id))
  BY DEF AskToRemove
<1>2. id \in 1 .. used /\ id \in 0 .. MaxEntries /\ id # None
  BY <1>0, Facts, ElementsAreEntries, AutoplayAssumption DEF Entries
<1>3. PlayingEntry \in 0 .. MaxEntries
  BY <1>0, AutoplayAssumption DEF PlayingEntry, Types, QueueAgrees, QueueIs, None
<1>4. /\ client' \in Clients /\ client'.step = "removing" /\ client'.id = id
      /\ client'.playing = PlayingEntry /\ client'.starts = engine.starts
  BY <1>0, <1>1, <1>2, <1>3, Facts, NoRequestIs DEF Clients
<1>5. client.step = "idle" /\ landing.step = "none"
      /\ UNCHANGED <<player, inbox, fan, state, fetches, landing, silent, empty>>
  BY DEF AskToRemove, Asks, LockFree
<1>6. QueueAgrees' /\ EngineAgrees' /\ MailAgrees' /\ RadioAgrees' /\ EntryIsLast'
  BY <1>0, <1>5, QueueKept, EngineKept, MailKept, RadioKept, EntryKept DEF Types, player
<1>7. RequestAgrees'
  <2>1. requests' \in Nat
    BY <1>0 DEF Types, RequestAgrees, AskToRemove, Asks
  <2>2. early' \in BOOLEAN
    BY <1>1
  <2> QED BY <2>1, <2>2, <1>0, <1>4, <1>5 DEF Types, RequestAgrees, Clients
<1>8. SkipsAgree'
  <2>1. PlayingEntry = id => Skippable(engine, id, engine.starts)
    <3>1. SUFFICES ASSUME PlayingEntry = id PROVE engine.track \in {None, id}
      BY <1>0, Facts DEF Skippable
    <3>2. queue.current = id
      BY <3>1, <1>2 DEF PlayingEntry
    <3> QED BY <3>2, <1>0, <1>2 DEF Types, EngineAgrees, EngineIs
  <2>2. UNCHANGED <<queue, used, engine, inbox>>
    BY <1>5 DEF player
  <2> QED BY <2>1, <2>2, <1>0, <1>4 DEF SkipsAgree
<1>9. SilenceAgrees'
  <2>1. ASSUME silent, ~early' PROVE Quiet'
    <3>1. ~early /\ ~(StopPending /\ PlayingEntry = id)
      BY <2>1, <1>1
    <3>2. Quiet
      BY <2>1, <3>1, <1>0 DEF SilenceAgrees
    <3>3. CASE inbox = <<>> /\ engine.state = "Stopped"
      <4>1. PlayingEntry = None
        BY <3>3 DEF PlayingEntry
      <4> QED BY <4>1, <3>2, <3>3, <1>2, <1>4, <1>5 DEF Quiet, player
    <3>4. CASE Len(inbox) > 0 /\ inbox[Len(inbox)].what = "stop"
      <4>1. Len(inbox) \in Nat /\ DOMAIN inbox = 1 .. Len(inbox)
        BY <1>0, LenProperties DEF Types, MailAgrees
      <4>2. Len(inbox) \in DOMAIN inbox
        BY <3>4, <4>1
      <4>3. StopPending
        BY <3>4, <4>2 DEF StopPending
      <4> QED BY <4>3, <3>1, <3>2, <3>4, <1>4, <1>5 DEF Quiet
    <3> QED BY <3>2, <3>3, <3>4, <1>5 DEF Quiet
  <2>2. fan' = fan /\ silent' = silent
    BY <1>5
  <2> QED BY <2>1, <2>2, <1>0 DEF SilenceAgrees
<1> QED BY <1>6, <1>7, <1>8, <1>9 DEF Inv, Types

(* The entry goes, and is skipped if it is what played.                    *)
LEMMA RemoveEntryKeeps ==
  ASSUME Inv, RemoveEntry
  PROVE  Inv'
<1>0. Types /\ EntryIsLast /\ SkipsAgree /\ SilenceAgrees
  BY DEF Inv
<1>1. client.step = "removing" /\ client.id \in ToSet(queue.items)
  BY <1>0 DEF RemoveEntry, SkipsAgree
<1>2. /\ QueueIs(queue', used')
      /\ ToSet(queue'.items) = ToSet(queue.items) \ {client.id}
      /\ queue'.current \in {None, queue.current}
  BY <1>0, <1>1, Facts, RemovedIs DEF RemoveEntry
<1>3. UNCHANGED <<used, engine, heard, inbox, fan, state, fetches, landing, history, empty,
                  requests>> /\ changed' = TRUE
  BY DEF RemoveEntry
<1>4. client \in Clients /\ landing.step = "none"
  BY <1>0, <1>1 DEF Types, RequestAgrees, Clients
<1>5. /\ client' \in Clients
      /\ \/ client'.step = "idle"
         \/ /\ client.playing = client.id /\ client'.step = "skipping"
            /\ client'.id = client.id /\ client'.starts = client.starts
  BY <1>4, NoRequestIs DEF RemoveEntry, Clients
<1>6. QueueAgrees'
  BY <1>2 DEF QueueAgrees, QueueIs
<1>7. EngineAgrees' /\ MailAgrees' /\ RadioAgrees'
  BY <1>0, <1>2, <1>3, EngineKept, MailKept, RadioKept DEF Types
<1>8. RequestAgrees'
  BY <1>0, <1>3, <1>4, <1>5 DEF Types, RequestAgrees, Clients, history
<1>9. EntryIsLast'
  BY <1>0, <1>3, <1>4, EntryKept
<1>10. SkipsAgree'
  <2>1. client.id \in 1 .. used
    BY <1>0, <1>1, Facts, ElementsAreEntries
  <2>2. Gone(queue', used', client.id)
    BY <2>1, <1>2, <1>3 DEF Gone
  <2>3. client.playing = client.id => Skippable(engine', client.id, client.starts)
    BY <1>0, <1>1, <1>3 DEF SkipsAgree
  <2>4. ASSUME NEW i \in DOMAIN inbox', inbox'[i].what = "next", inbox'[i].id # None
        PROVE  /\ Gone(queue', used', inbox'[i].id)
               /\ Skippable(engine', inbox'[i].id, inbox'[i].starts)
    <3>1. Gone(queue, used, inbox[i].id) /\ Skippable(engine, inbox[i].id, inbox[i].starts)
      BY <2>4, <1>0, <1>3 DEF SkipsAgree
    <3>2. Gone(queue', used', inbox[i].id)
      BY <3>1, <1>2, <1>3 DEF Gone
    <3> QED BY <3>1, <3>2, <1>3
  <2>5. client'.step # "removing"
    BY <1>5
  <2>6. client'.step = "skipping" =>
          Gone(queue', used', client'.id) /\ Skippable(engine', client'.id, client'.starts)
    BY <1>5, <2>2, <2>3
  <2> QED BY <2>4, <2>5, <2>6 DEF SkipsAgree
<1>11. SilenceAgrees'
  <2>1. ASSUME Quiet PROVE Quiet'
    <3>1. client'.step = "idle"
      BY <2>1, <1>1, <1>5 DEF Quiet
    <3> QED BY <2>1, <3>1, <1>1, <1>3 DEF Quiet
  <2> QED BY <2>1, <1>0, <1>3 DEF SilenceAgrees, history
<1> QED BY <1>6, <1>7, <1>8, <1>9, <1>10, <1>11 DEF Inv, Types

LEMMA AskToSetAutoplayKeeps ==
  ASSUME Inv, AskToSetAutoplay
  PROVE  Inv'
<1>0. Types /\ EntryIsLast /\ SkipsAgree /\ SilenceAgrees
  BY DEF Inv
<1>1. /\ queue'.items = queue.items /\ queue'.current = queue.current
      /\ queue'.after = queue.after
      /\ queue' \in [items : Seq(Entries), current : 0 .. MaxEntries, after : Nat,
                     autoplay : BOOLEAN]
  BY <1>0 DEF Types, QueueAgrees, QueueIs, AskToSetAutoplay
<1>2. /\ UNCHANGED <<used, engine, heard, inbox, fan, state, fetches, landing, client, history,
                     empty>>
      /\ changed' = TRUE /\ requests' = requests + 1
  BY DEF AskToSetAutoplay, Asks
<1>3. QueueAgrees'
  BY <1>0, <1>1, <1>2 DEF Types, QueueAgrees, QueueIs
<1>4. EngineAgrees' /\ MailAgrees' /\ RadioAgrees' /\ RequestAgrees'
  BY <1>0, <1>1, <1>2, EngineKept, MailKept, RadioKept, RequestKept DEF Types, history
<1>5. EntryIsLast'
  BY <1>0, <1>1, <1>2 DEF EntryIsLast
<1>6. SkipsAgree'
  BY <1>0, <1>1, <1>2, Facts, SkipsKept
<1>7. SilenceAgrees'
  BY <1>0, <1>2, QuietKept DEF history
<1> QED BY <1>3, <1>4, <1>5, <1>6, <1>7 DEF Inv, Types

---------------------------------------------------------------------------
(* The invariant is inductive.                                             *)

LEMMA InitKeeps == Init => Inv
<1> SUFFICES ASSUME Init PROVE Inv
  OBVIOUS
<1>0. /\ MaxEntries \in Nat \ {0} /\ 1 \in Entries /\ 0 \in 0 .. MaxEntries
      /\ Entries \subseteq 0 .. MaxEntries
  BY AutoplayAssumption DEF Entries
<1>1. queue.items \in Seq(Entries) /\ ToSet(queue.items) = {1} /\ Distinct(queue.items)
      /\ Len(queue.items) = 1
  BY <1>0 DEF Init, ToSet, Distinct
<1>2. QueueAgrees
  BY <1>0, <1>1 DEF Init, QueueAgrees, QueueIs, None
<1>3. EngineAgrees /\ MailAgrees
  <2>1. <<>> \in Seq(Commands) /\ <<>> \in Seq(0 .. MaxEntries)
    BY EmptySeq
  <2> QED BY <1>0, <2>1 DEF Init, EngineAgrees, EngineIs, MailAgrees, None
<1>4. RadioAgrees
  BY <1>0 DEF Init, RadioAgrees, Idle, NoLanding, Steps, None
<1>5. RequestAgrees
  BY <1>0 DEF Init, RequestAgrees, NoRequest, NoLanding, None
<1>6. EntryIsLast /\ SkipsAgree /\ SilenceAgrees
  BY DEF Init, EntryIsLast, SkipsAgree, SilenceAgrees, NoRequest, NoLanding, Idle
<1> QED BY <1>2, <1>3, <1>4, <1>5, <1>6 DEF Inv, Types

LEMMA StutterKeeps ==
  ASSUME Inv, UNCHANGED vars
  PROVE  Inv'
<1>0. Types /\ EntryIsLast /\ SkipsAgree /\ SilenceAgrees
  BY DEF Inv
<1>1. QueueAgrees' /\ EngineAgrees' /\ MailAgrees' /\ RadioAgrees' /\ RequestAgrees'
      /\ EntryIsLast'
  BY <1>0, QueueKept, EngineKept, MailKept, RadioKept, RequestKept, EntryKept DEF Types, vars
<1>2. SkipsAgree' /\ SilenceAgrees'
  BY <1>0, Facts, SkipsKept, QuietKept DEF vars
<1> QED BY <1>1, <1>2 DEF Inv, Types

LEMMA NextKeeps == Inv /\ [Next]_vars => Inv'
<1> SUFFICES ASSUME Inv, [Next]_vars PROVE Inv'
  OBVIOUS
<1>1. CASE Working
  BY <1>1, TakeKeeps, LoadKeeps, DryKeeps DEF Working
<1>2. CASE Daemon
  BY <1>2, HearStartedKeeps, HearDryKeeps, HearChangeKeeps, ConsiderKeeps, BeginRadioKeeps
     DEF Daemon
<1>3. CASE Radio
  BY <1>3, LandKeeps, RecheckKeeps, RecheckStateKeeps, AddRadioKeeps, PlayRadioKeeps DEF Radio
<1>4. CASE Request
  BY <1>4, ClearQueueKeeps, CommandStopKeeps, RemoveEntryKeeps, SkipKeeps DEF Request
<1>5. CASE Finish \/ AskToPlay \/ AskForSilence \/ AskToRemove \/ AskToAdd \/ AskToSetAutoplay
  BY <1>5, FinishKeeps, AskToPlayKeeps, AskForSilenceKeeps, AskToRemoveKeeps, AskToAddKeeps,
     AskToSetAutoplayKeeps
<1>6. CASE UNCHANGED vars
  BY <1>6, StutterKeeps
<1> QED BY <1>1, <1>2, <1>3, <1>4, <1>5, <1>6 DEF Next

(* The inductive invariant: types, the lock's two holders, what a skip is  *)
(* about, and what a Stop leaves behind.                                   *)
THEOREM Invariance == Spec => []Inv
BY InitKeeps, NextKeeps, PTL DEF Spec

(* Every part keeps its type (TypeOK); the queue holds an entry once, its  *)
(* cursor is at the current one, no radio is of a generation to come, and  *)
(* a radio being added and a request do not hold the control lock at once  *)
(* (run_autoplay and the handlers of requests).                            *)
THEOREM TypesHold == Spec => []TypeOK
<1>1. Inv => TypeOK
  <2> SUFFICES ASSUME Inv PROVE TypeOK
    OBVIOUS
  <2>1. QueueAgrees /\ EngineAgrees /\ MailAgrees /\ RadioAgrees /\ RequestAgrees
    BY DEF Inv, Types
  <2>2. /\ ToSet(queue.items) \subseteq 1 .. used /\ IsInjective(queue.items)
        /\ queue.current # None => queue.after > 0 /\ queue.items[queue.after] = queue.current
        /\ used \in Entries /\ queue.autoplay \in BOOLEAN
    BY <2>1 DEF QueueAgrees, QueueIs, Distinct, IsInjective
  <2>3. queue.after \in 0 .. Len(queue.items)
    <3>1. queue.after \in Nat /\ queue.after <= Len(queue.items) /\ Len(queue.items) \in Nat
      BY <2>1 DEF QueueAgrees, QueueIs
    <3> QED BY <3>1
  <2>4. Range(heard) \subseteq 0 .. MaxEntries
    <3>1. ASSUME NEW S, heard \in Seq(S) PROVE \A i \in DOMAIN heard : heard[i] \in S
      BY <3>1
    <3>2. heard \in Seq(0 .. MaxEntries)
      BY <2>1 DEF MailAgrees
    <3>3. \A i \in DOMAIN heard : heard[i] \in 0 .. MaxEntries
      BY <3>1, <3>2
    <3> QED BY <3>3 DEF Range
  <2>5. \A f \in fetches : f.generation <= state.generation
    <3>1. \A f \in fetches : f.generation \in 0 .. state.generation
      BY <2>1 DEF RadioAgrees
    <3> QED BY <3>1
  <2>6. state.generation \in Nat /\ landing.step \in {"none", "landed", "due", "wanted", "added"}
    BY <2>1 DEF RadioAgrees, Steps
  <2> QED BY <2>1, <2>2, <2>3, <2>4, <2>5, <2>6
          DEF TypeOK, EngineAgrees, EngineIs, MailAgrees, RadioAgrees, RequestAgrees
<1> QED BY <1>1, Invariance, PTL

(* Once the engine has handled the Stop that a listener asked for, or the  *)
(* one that goes with clearing the queue, it stays stopped and nothing is  *)
(* on its way to it (StaysSilent): no radio resumes it and no skip starts  *)
(* it, but for one begun before the Stop was handled (consider_autoplay).  *)
THEOREM SilenceIsKept == Spec => []StaysSilent
<1>1. Inv => StaysSilent
  <2> SUFFICES ASSUME Inv, silent, client.step \notin {"clearing", "commanding"},
                      ~StopPending, ~early
               PROVE  engine.state = "Stopped" /\ inbox = <<>>
    BY DEF StaysSilent
  <2>1. Quiet
    BY DEF Inv, SilenceAgrees
  <2>2. ASSUME Len(inbox) > 0, inbox[Len(inbox)].what = "stop" PROVE FALSE
    <3>1. Len(inbox) \in Nat /\ DOMAIN inbox = 1 .. Len(inbox)
      BY LenProperties DEF Inv, Types, MailAgrees
    <3>2. Len(inbox) \in DOMAIN inbox
      BY <2>2, <3>1
    <3> QED BY <2>2, <3>2 DEF StopPending
  <2> QED BY <2>1, <2>2 DEF Quiet
<1> QED BY <1>1, Invariance, PTL

(* When a radio is added or given up, the entry it was asked for is the    *)
(* last of the queue (RadioFollowsItsEntry): run_autoplay holds the lock   *)
(* from the check that it is due until it has added.                       *)
THEOREM RadioGoesLast == Spec => RadioFollowsItsEntry
<1>1. Inv /\ [Next]_vars =>
        (landing.step = "wanted" /\ landing'.step # "wanted" => Last(queue.items) = landing.entry)
  BY DEF Inv, EntryIsLast, Last
<1> QED BY <1>1, Invariance, PTL DEF Spec, RadioFollowsItsEntry

(* The skip that follows a removal (control.rs) ends nothing but what was  *)
(* removed, or what the engine started on its own since it was looked at   *)
(* (SkipsTheRemoved).                                                      *)
THEOREM OnlyTheRemovedIsSkipped == Spec => SkipsTheRemoved
<1>1. ASSUME Inv, Take, Head(inbox).what = "next", Head(inbox).id # None
      PROVE  \/ engine.track = None
             \/ engine.track \notin ToSet(queue.items)
             \/ engine.starts # Head(inbox).starts
  <2>1. inbox \in Seq(Commands) /\ inbox # <<>>
    BY <1>1 DEF Inv, Types, MailAgrees, Take
  <2>2. 1 \in DOMAIN inbox /\ Head(inbox) = inbox[1]
    BY <2>1, TailOf
  <2>3. Gone(queue, used, inbox[1].id) /\ Skippable(engine, inbox[1].id, inbox[1].starts)
    BY <1>1, <2>2 DEF Inv, SkipsAgree
  <2> QED BY <2>2, <2>3 DEF Gone, Skippable
<1>2. Inv /\ [Next]_vars =>
        (Take /\ Head(inbox).what = "next" /\ Head(inbox).id # None =>
           \/ engine.track = None
           \/ engine.track \notin ToSet(queue.items)
           \/ engine.starts # Head(inbox).starts)
  BY <1>1
<1> QED BY <1>2, Invariance, PTL DEF Spec, SkipsTheRemoved
=============================================================================
