--------------------------- MODULE ChatTextProofs ---------------------------
(***************************************************************************)
(* For every number of handlers and every size of the arrays: "%s" never   *)
(* leaves name[], a label is the beginning of its sender's nickname, and   *)
(* the last line of a handler has only characters of later owners.         *)
(*                                                                         *)
(* The argument: only the owner of the entry writes name[], and never its  *)
(* last place; once it has written all others, they hold its nickname and  *)
(* zeroes, until the entry has a new owner.                                *)
(***************************************************************************)
EXTENDS ChatText, TLAPS

\* Program points between the claim and the release of the entry.
Holds == {"copy", "greet", "recv", "format", "broadcast", "release"}
Past  == (Holds \ {"copy"}) \cup {"goodbye"}

Owned(c) == pc[c] \in Holds => owner = c

Copied(c) == pc[c] \in Holds =>
    \A i \in Written : (pc[c] = "copy" => i \notin todo[c]) =>
        name[i] = IF i < nick[c] THEN c ELSE None

Reading(c) == pc[c] \in {"greet", "format"} =>
    /\ at[c] <= Shown(c) /\ len[c] \in {-1, Shown(c)}
    /\ \A i \in DOMAIN seen[c] : seen[c][i] = c

Label(c) == pc[c] = "broadcast" =>
    /\ message[c].label = [i \in 1 .. Shown(c) |-> c]
    /\ message[c].lost < BUFFER - 1
    /\ Shown(c) + ip[c] <= MESSAGE - BUFFER - 5 => message[c].lost = 0

Claimed(c) == pc[c] \in Holds \cup {"goodbye"} => \E j \in DOMAIN claims : claims[j] = c

Overwritten(c) == pc[c] \in Past => \A i \in Places : name[i] # None => Later(c, name[i])

Mixed(c) == \A i \in DOMAIN seen[c] : seen[c][i] # None => Later(c, seen[c][i])

HandlerInv(c) ==
    /\ Owned(c) /\ Copied(c) /\ Reading(c) /\ Label(c)
    /\ Claimed(c) /\ Overwritten(c) /\ Mixed(c)
    /\ todo[c] \subseteq Written

Newest == owner # None => claims # <<>> /\ claims[Len(claims)] = owner

IInv ==
    /\ TypeOK
    /\ name[NAME - 1] = None
    /\ Newest
    /\ \A c \in Handlers : HandlerInv(c)

-----------------------------------------------------------------------------

\* The constants, in the form the steps need.
LEMMA Sizes ==
    /\ NAME \in Nat \ {0} /\ NAME - 1 \in Places /\ None \notin Handlers
    /\ Places \subseteq Nat /\ Written = 0 .. (NAME - 2)
    /\ BUFFER \in Nat /\ MESSAGE \in Nat /\ Addresses \subseteq Nat
BY ChatTextAssumption DEF Places, Written

\* What is shown of a nickname.
LEMMA ShownFacts ==
    ASSUME TypeOK, NEW c \in Handlers
    PROVE  /\ Shown(c) \in Places /\ Shown(c) <= nick[c]
           /\ Shown(c) < NAME - 1 => Shown(c) = nick[c]
<1>1. nick[c] \in Nat BY DEF TypeOK
<1>2. NAME - 1 \in Nat BY Sizes
<1>3. CASE nick[c] < NAME - 1 BY <1>1, <1>2, <1>3 DEF Shown, Places
<1>4. CASE ~(nick[c] < NAME - 1) BY <1>1, <1>2, <1>4 DEF Shown, Places
<1> QED BY <1>3, <1>4

\* Where the owner's zero is.
LEMMA FirstZero ==
    ASSUME IInv, NEW c \in Handlers, pc[c] \in Holds \ {"copy"}, NEW i \in 0 .. Shown(c)
    PROVE  /\ i \in Places
           /\ i < Shown(c) => name[i] = c
           /\ i = Shown(c) => name[i] = None
<1>1. /\ Shown(c) \in Places /\ Shown(c) <= nick[c] /\ nick[c] \in Nat
      /\ Shown(c) < NAME - 1 => Shown(c) = nick[c]
  BY ShownFacts DEF IInv, TypeOK
<1>2. \A k \in Written : name[k] = IF k < nick[c] THEN c ELSE None
  BY DEF IInv, HandlerInv, Copied, Holds
<1>3. i \in Places BY <1>1, Sizes DEF Places
<1>4. ASSUME i < Shown(c) PROVE name[i] = c
  <2>1. i \in Written /\ i < nick[c] BY <1>1, <1>4, Sizes DEF Places
  <2> QED BY <2>1, <1>2
<1>5. ASSUME i = Shown(c) PROVE name[i] = None
  <2>1. CASE i = NAME - 1 BY <2>1 DEF IInv
  <2>2. CASE i # NAME - 1
    <3>1. i \in Written /\ i = nick[c] BY <2>2, <1>1, <1>5, Sizes DEF Places
    <3> QED BY <3>1, <1>1, <1>2
  <2> QED BY <2>1, <2>2
<1> QED BY <1>3, <1>4, <1>5

\* Who came later stays later when the entry is claimed again.
LEMMA LaterKept ==
    ASSUME TypeOK, claims' = claims \/ \E d \in Handlers : claims' = Append(claims, d)
    PROVE  /\ \A c, d : Later(c, d) => Later(c, d)'
           /\ \A c : (\E j \in DOMAIN claims : claims[j] = c)
                        => (\E j \in DOMAIN claims : claims[j] = c)'
<1>1. claims \in Seq(Handlers) BY DEF TypeOK
<1>2. \A j \in DOMAIN claims : j \in DOMAIN claims' /\ claims'[j] = claims[j] BY <1>1
<1> QED BY <1>2 DEF Later

\* The beginning.
LEMMA InitInv == Init => IInv
<1> SUFFICES ASSUME Init PROVE IInv OBVIOUS
<1>1. TypeOK
  <2>1. nick \in [Handlers -> Nat] BY Sizes DEF Init
  <2>2. <<>> \in Seq(Handlers \cup {None}) OBVIOUS
  <2>3. \A c \in Handlers : Unlabelled \in [label : Seq(Handlers \cup {None}), lost : Nat]
    BY DEF Unlabelled
  <2>4. \A c \in Handlers : 0 \in 0 .. (BUFFER - 1) /\ 0 \in Places
    BY ChatTextAssumption, Sizes DEF Places
  <2> QED BY <2>1, <2>2, <2>3, <2>4 DEF Init, TypeOK, Reads
<1>2. \A c \in Handlers : HandlerInv(c)
  BY DEF Init, HandlerInv, Owned, Copied, Reading, Label, Claimed, Overwritten, Mixed,
         Holds, Past
<1> QED BY <1>1, <1>2, Sizes DEF IInv, Newest, Init

-----------------------------------------------------------------------------

\* A handler that does nothing, while name[] is left alone.
LEMMA Kept ==
    ASSUME IInv, NEW d \in Handlers, UNCHANGED <<texts, name>>,
           UNCHANGED <<pc[d], todo[d], at[d], len[d], seen[d], message[d]>>,
           claims' = claims \/ \E e \in Handlers : claims' = Append(claims, e),
           pc[d] \in Holds => owner' = d
    PROVE  HandlerInv(d)'
<1>1. HandlerInv(d) /\ TypeOK BY DEF IInv
<1>2. Shown(d)' = Shown(d) /\ nick'[d] = nick[d] /\ ip'[d] = ip[d] BY DEF texts, Shown
<1>3. Owned(d)' /\ Copied(d)' BY <1>1, <1>2 DEF HandlerInv, Owned, Copied
<1>4. Reading(d)' /\ Label(d)' BY <1>1, <1>2 DEF HandlerInv, Reading, Label
<1>5. Claimed(d)' BY <1>1, LaterKept DEF HandlerInv, Claimed
<1>6. Overwritten(d)' /\ Mixed(d)' BY <1>1, LaterKept DEF HandlerInv, Overwritten, Mixed
<1> QED BY <1>1, <1>3, <1>4, <1>5, <1>6 DEF HandlerInv

\* A handler goes on, while name[] is left alone and the entry keeps its owner
\* or loses it.
LEMMA Moved ==
    ASSUME IInv, NEW c \in Handlers, UNCHANGED <<texts, name, todo, claims>>,
           pc'[c] # "copy" \/ pc[c] = "copy",
           pc'[c] \in Holds => pc[c] \in Holds /\ owner' = owner,
           pc'[c] # "copy" /\ pc[c] = "copy" => todo[c] = {},
           pc'[c] = "goodbye" => pc[c] \in Past
    PROVE  Owned(c)' /\ Copied(c)' /\ Claimed(c)' /\ Overwritten(c)' /\ (todo[c] \subseteq Written)'
<1>1. HandlerInv(c) /\ TypeOK BY DEF IInv
<1>2. nick'[c] = nick[c] BY DEF texts
<1>3. Owned(c)' BY <1>1 DEF HandlerInv, Owned
<1>4. Copied(c)' BY <1>1, <1>2 DEF HandlerInv, Copied
<1>5. Claimed(c)' BY <1>1 DEF HandlerInv, Claimed, Past
<1>6. \A d : Later(c, d)' = Later(c, d) BY DEF Later
<1>7. Overwritten(c)'
  <2> SUFFICES ASSUME pc'[c] \in Past, NEW i \in Places, name[i] # None
               PROVE  Later(c, name[i])
    BY <1>6 DEF Overwritten
  <2>1. CASE pc[c] \in Past BY <2>1, <1>1 DEF HandlerInv, Overwritten
  <2>2. CASE pc[c] = "copy"
    <3>1. pc'[c] # "copy" /\ todo[c] = {} BY <2>2 DEF Past, Holds
    <3>2. i # NAME - 1 BY DEF IInv
    <3>3. i \in Written BY <3>2 DEF Written
    <3>4. name[i] = c BY <2>2, <3>1, <3>3, <1>1 DEF HandlerInv, Copied, Holds
    <3>5. \E j \in DOMAIN claims : claims[j] = c BY <2>2, <1>1 DEF HandlerInv, Claimed, Holds
    <3>6. claims \in Seq(Handlers) BY <1>1 DEF TypeOK
    <3> QED BY <3>4, <3>5, <3>6 DEF Later
  <2> QED BY <2>1, <2>2 DEF Past
<1> QED BY <1>1, <1>3, <1>4, <1>5, <1>7 DEF HandlerInv

\* The steps that leave name[] and the claims alone.
LEMMA Quiet ==
    ASSUME IInv, NEW c \in Handlers, UNCHANGED <<texts, name, todo, claims>>,
           \A d \in Handlers \ {c} :
              UNCHANGED <<pc[d], at[d], len[d], seen[d], message[d]>>,
           owner' = owner \/ (owner' = None /\ pc[c] = "release"),
           pc'[c] # "copy" \/ pc[c] = "copy",
           pc'[c] \in Holds => pc[c] \in Holds /\ owner' = owner,
           pc'[c] # "copy" /\ pc[c] = "copy" => todo[c] = {},
           pc'[c] = "goodbye" => pc[c] \in Past,
           TypeOK', Reading(c)', Label(c)', Mixed(c)'
    PROVE  IInv'
<1>1. HandlerInv(c)' BY Moved DEF HandlerInv
<1>2. ASSUME NEW d \in Handlers \ {c} PROVE HandlerInv(d)'
  <2>1. pc[d] \in Holds => owner' = d
    <3>1. pc[d] \in Holds => owner = d BY DEF IInv, HandlerInv, Owned
    <3>2. pc[c] = "release" => owner = c BY DEF IInv, HandlerInv, Owned, Holds
    <3> QED BY <3>1, <3>2
  <2>2. UNCHANGED <<pc[d], todo[d], at[d], len[d], seen[d], message[d]>> OBVIOUS
  <2> QED BY <2>1, <2>2, Kept
<1>3. Newest' BY DEF IInv, Newest
<1>4. name'[NAME - 1] = None BY DEF IInv
<1> QED BY <1>1, <1>2, <1>3, <1>4 DEF IInv

\* The names of the locals, for one handler.
LEMMA Types ==
    ASSUME TypeOK, NEW c \in Handlers
    PROVE  /\ nick[c] \in Nat /\ ip[c] \in Nat /\ todo[c] \subseteq Places
           /\ at[c] \in Places /\ len[c] \in Places \cup {-1}
           /\ seen[c] \in Seq(Handlers \cup {None}) /\ text[c] \in 0 .. (BUFFER - 1)
BY Sizes DEF TypeOK

\* The handler comes to a new place and forgets what it has read.
LEMMA ReadStep ==
    ASSUME IInv, NEW c \in Handlers, NEW l, Read(c, l),
           l \in Reads \cup {"recv", "broadcast"}
    PROVE  /\ pc' \in [Handlers -> Reads \cup {"claim", "copy", "recv", "broadcast", "release", "done"}]
           /\ at' \in [Handlers -> Places] /\ len' \in [Handlers -> Places \cup {-1}]
           /\ seen' \in [Handlers -> Seq(Handlers \cup {None})]
           /\ pc'[c] = l /\ seen'[c] = <<>> /\ at'[c] = 0 /\ len'[c] = -1
           /\ \A d \in Handlers \ {c} : UNCHANGED <<pc[d], at[d], len[d], seen[d]>>
           /\ Mixed(c)'
           /\ UNCHANGED texts => Reading(c)'
<1>1. TypeOK BY DEF IInv
<1>2. 0 \in Places /\ <<>> \in Seq(Handlers \cup {None}) BY Sizes DEF Places
<1>3. /\ pc' \in [Handlers -> Reads \cup {"claim", "copy", "recv", "broadcast", "release", "done"}]
      /\ pc'[c] = l /\ \A d \in Handlers \ {c} : pc'[d] = pc[d]
  BY <1>1 DEF Read, Goto, TypeOK
<1>4. /\ at' \in [Handlers -> Places] /\ len' \in [Handlers -> Places \cup {-1}]
      /\ at'[c] = 0 /\ len'[c] = -1
      /\ \A d \in Handlers \ {c} : at'[d] = at[d] /\ len'[d] = len[d]
  BY <1>1, <1>2 DEF Read, TypeOK
<1>5. /\ seen' \in [Handlers -> Seq(Handlers \cup {None})] /\ seen'[c] = <<>>
      /\ \A d \in Handlers \ {c} : seen'[d] = seen[d]
  BY <1>1, <1>2 DEF Read, TypeOK
<1>6. Mixed(c)' BY <1>5 DEF Mixed
<1>7. ASSUME UNCHANGED texts PROVE Reading(c)'
  <2>1. Shown(c)' = Shown(c) /\ Shown(c) \in Nat BY <1>1, <1>7, ShownFacts, Sizes DEF texts, Shown
  <2> QED BY <1>4, <1>5, <2>1 DEF Reading
<1> QED BY <1>3, <1>4, <1>5, <1>6, <1>7

\* Read() when only the locals of the reader change.
LEMMA QuietRead ==
    ASSUME IInv, NEW c \in Handlers, NEW l \in Reads \cup {"recv", "broadcast"}, Read(c, l),
           UNCHANGED <<texts, name, todo, claims>>,
           \A d \in Handlers \ {c} : UNCHANGED message[d],
           owner' = owner \/ (owner' = None /\ pc[c] = "release"),
           l = "goodbye" \/ (pc[c] \in Holds /\ owner' = owner),
           pc[c] = "copy" => todo[c] = {},
           l = "goodbye" => pc[c] \in Past,
           mutex' \in Handlers \cup {None},
           text' \in [Handlers -> 0 .. (BUFFER - 1)],
           message' \in [Handlers -> [label : Seq(Handlers \cup {None}), lost : Nat]],
           l = "broadcast" => Label(c)'
    PROVE  IInv'
<1>1. TypeOK /\ owner \in Handlers \cup {None} BY DEF IInv, TypeOK
<1>2. TypeOK' BY <1>1, ReadStep DEF TypeOK, texts
<1>3. /\ pc'[c] = l /\ Mixed(c)' /\ Reading(c)'
      /\ \A d \in Handlers \ {c} : UNCHANGED <<pc[d], at[d], len[d], seen[d]>>
  BY ReadStep
<1>4. Label(c)' BY <1>3 DEF Label
<1>5. l # "copy" BY DEF Reads
<1>6. pc'[c] \in Holds => pc[c] \in Holds /\ owner' = owner BY <1>3 DEF Holds
<1> QED BY <1>2, <1>3, <1>4, <1>5, <1>6, Quiet

\* The end of the copy of the nickname.
LEMMA CopyEndsInv == ASSUME IInv, NEW c \in Handlers, CopyEnds(c) PROVE IInv'
<1>1. TypeOK BY DEF IInv
<1>2. pc[c] \in Holds /\ "greet" \in Reads BY DEF CopyEnds, Holds, Reads
<1> QED BY <1>1, <1>2, QuietRead DEF CopyEnds, TypeOK, texts

\* The message of greeting is read, not written.
LEMMA GreetInv == ASSUME IInv, NEW c \in Handlers, Greet(c) PROVE IInv'
<1>1. TypeOK BY DEF IInv
<1>2. pc[c] \in Holds BY DEF Greet, Holds
<1> QED BY <1>1, <1>2, QuietRead DEF Greet, TypeOK, texts

\* A line arrives in the handler's own buffer.
LEMMA RecvLineInv == ASSUME IInv, NEW c \in Handlers, RecvLine(c) PROVE IInv'
<1>1. TypeOK BY DEF IInv
<1>2. pc[c] \in Holds /\ "format" \in Reads BY DEF RecvLine, Holds, Reads
<1>3. text' \in [Handlers -> 0 .. (BUFFER - 1)]
  <2>1. PICK n \in 1 .. (BUFFER - 1) : text' = [text EXCEPT ![c] = n] BY DEF RecvLine
  <2>2. n \in 0 .. (BUFFER - 1) BY <2>1, Sizes
  <2> QED BY <2>1, <2>2, <1>1 DEF TypeOK
<1> QED BY <1>1, <1>2, <1>3, QuietRead DEF RecvLine, TypeOK, texts

\* Only the text can be cut: label and address leave room in message[].
LEMMA FormatInv == ASSUME IInv, NEW c \in Handlers, Format(c) PROVE IInv'
<1>1. TypeOK /\ Reading(c) BY DEF IInv, HandlerInv
<1>2. pc[c] \in Holds BY DEF Format, Holds
<1> DEFINE length == len[c] + ip[c] + 5 + text[c]
           lost   == IF length > Room THEN length - Room ELSE 0
<1>3. message' = [message EXCEPT ![c] = [label |-> seen[c], lost |-> lost]]
  BY DEF Format
<1>4. len[c] = Shown(c) /\ seen[c] = [i \in 1 .. Shown(c) |-> c]
  <2>1. seen[c] \in Seq(Handlers \cup {None}) BY <1>1, Types
  <2>2. Len(seen[c]) = len[c] BY DEF Format, Fetched
  <2>3. len[c] = Shown(c) BY <2>1, <2>2, <1>1 DEF Format, Reading
  <2>4. \A i \in 1 .. Shown(c) : seen[c][i] = c BY <2>1, <2>2, <2>3, <1>1 DEF Format, Reading
  <2> QED BY <2>1, <2>2, <2>3, <2>4
<1>5. /\ len[c] \in 0 .. (NAME - 1) /\ ip[c] \in Addresses /\ ip[c] \in Nat
      /\ text[c] \in 0 .. (BUFFER - 1)
  BY <1>1, <1>4, ShownFacts, Types DEF TypeOK, Places
<1>6. /\ lost \in Nat /\ lost < BUFFER - 1
      /\ Shown(c) + ip[c] <= MESSAGE - BUFFER - 5 => lost = 0
  <2>1. NAME + ip[c] + 5 < MESSAGE /\ BUFFER > 1 BY <1>5, ChatTextAssumption
  <2>2. ASSUME NEW n \in 0 .. (NAME - 1), NEW a \in Nat, NEW t \in 0 .. (BUFFER - 1),
               NAME + a + 5 < MESSAGE
        PROVE  LET all == n + a + 5 + t
                   cut == IF all > Room THEN all - Room ELSE 0
               IN  /\ cut \in Nat /\ cut < BUFFER - 1
                   /\ n + a <= MESSAGE - BUFFER - 5 => cut = 0
    BY <2>1, <2>2, Sizes DEF Room
  <2> QED BY <2>1, <2>2, <1>4, <1>5
<1>7. message' \in [Handlers -> [label : Seq(Handlers \cup {None}), lost : Nat]]
  <2>1. [label |-> seen[c], lost |-> lost] \in [label : Seq(Handlers \cup {None}), lost : Nat]
    BY <1>1, <1>6, Types
  <2> HIDE DEF lost
  <2> QED BY <2>1, <1>1, <1>3 DEF TypeOK
<1>8. Label(c)'
  <2>1. message'[c].label = seen[c] /\ message'[c].lost = lost BY <1>1, <1>3 DEF TypeOK
  <2>2. Shown(c)' = Shown(c) /\ ip'[c] = ip[c] BY DEF Format, texts, Shown
  <2> HIDE DEF lost
  <2> QED BY <2>1, <2>2, <1>4, <1>6 DEF Label
<1>9. text' \in [Handlers -> 0 .. (BUFFER - 1)]
  BY <1>1, ChatTextAssumption DEF Format, TypeOK
<1>10. \A d \in Handlers \ {c} : message'[d] = message[d] BY <1>1, <1>3 DEF TypeOK
<1> HIDE DEF lost
<1> QED BY <1>1, <1>2, <1>7, <1>8, <1>9, <1>10, QuietRead DEF Format, TypeOK, texts

\* A handler gives its entry back, which no other handler has.
LEMMA ReleaseInv == ASSUME IInv, NEW c \in Handlers, Release(c) PROVE IInv'
<1>1. TypeOK BY DEF IInv
<1>2. pc[c] \in Past /\ "goodbye" \in Reads BY DEF Release, Past, Holds, Reads
<1> QED BY <1>1, <1>2, QuietRead DEF Release, TypeOK, texts

\* The steps that change the program point only, and message[] perhaps.
LEMMA PlainInv ==
    ASSUME IInv, NEW c \in Handlers,
           Broadcast(c) \/ Leave(c) \/ Goodbye(c) \/ ClaimElsewhere(c)
    PROVE  IInv'
<1>1. TypeOK /\ HandlerInv(c) BY DEF IInv
<1>2. pc' = [pc EXCEPT ![c] = pc'[c]] /\ pc'[c] \in {"recv", "release", "done"}
  BY <1>1 DEF Broadcast, Leave, Goodbye, ClaimElsewhere, Goto, TypeOK
<1>3. \A d \in Handlers \ {c} : pc'[d] = pc[d] BY <1>1, <1>2 DEF TypeOK
<1>4. UNCHANGED <<texts, name, owner, mutex, todo, reader, text, claims>>
  BY DEF Broadcast, Leave, Goodbye, ClaimElsewhere
<1>5. message' \in [Handlers -> [label : Seq(Handlers \cup {None}), lost : Nat]]
      /\ \A d \in Handlers \ {c} : message'[d] = message[d]
  <2>1. Unlabelled \in [label : Seq(Handlers \cup {None}), lost : Nat] BY DEF Unlabelled
  <2> QED BY <2>1, <1>1, ZenonT(60) DEF Broadcast, Leave, Goodbye, ClaimElsewhere, TypeOK
<1>6. TypeOK' BY <1>1, <1>2, <1>4, <1>5 DEF TypeOK, texts, reader
<1>7. Reading(c)' /\ Label(c)' BY <1>2 DEF Reading, Label
<1>8. Mixed(c)' BY <1>1, <1>4 DEF HandlerInv, Mixed, Later, reader
<1>9. /\ pc'[c] # "copy" /\ pc'[c] # "goodbye" /\ pc[c] # "copy"
      /\ pc'[c] \in Holds => pc[c] \in Holds
  BY <1>1, <1>2 DEF Broadcast, Leave, Goodbye, ClaimElsewhere, Holds, Goto, TypeOK
<1> QED BY <1>3, <1>4, <1>5, <1>6, <1>7, <1>8, <1>9, Quiet DEF reader

\* The search for the zero stops in name[], whose last place no handler writes, and
\* at the right place while the reader owns the entry.
LEMMA MeasureInv == ASSUME IInv, NEW c \in Handlers, Measure(c) PROVE IInv'
<1>1. TypeOK /\ HandlerInv(c) /\ name[NAME - 1] = None BY DEF IInv
<1>2. /\ at[c] \in Places /\ len[c] = -1 /\ pc[c] \in Reads
      /\ UNCHANGED <<texts, name, owner, mutex, pc, todo, seen, text, message, claims>>
  BY <1>1 DEF Measure
<1>3. \/ name[at[c]] = None /\ len' = [len EXCEPT ![c] = at[c]] /\ at' = at
      \/ name[at[c]] # None /\ at' = [at EXCEPT ![c] = at[c] + 1] /\ len' = len
  BY DEF Measure
<1>4. name[at[c]] # None => at[c] + 1 \in Places
  BY <1>1, <1>2, Sizes DEF Places
<1>5. at' \in [Handlers -> Places] /\ len' \in [Handlers -> Places \cup {-1}]
  BY <1>1, <1>2, <1>3, <1>4, ZenonT(60) DEF TypeOK
<1>6. TypeOK' BY <1>1, <1>2, <1>5 DEF TypeOK, texts
<1>7. Reading(c)'
  <2> SUFFICES ASSUME pc[c] \in {"greet", "format"} PROVE Reading(c)'
    BY <1>2 DEF Reading
  <2>1. at[c] <= Shown(c) /\ \A i \in DOMAIN seen[c] : seen[c][i] = c
    BY <1>1 DEF HandlerInv, Reading
  <2>2. Shown(c) \in Nat /\ at[c] \in Nat BY <1>1, <1>2, ShownFacts DEF Places
  <2>3. at[c] \in 0 .. Shown(c) BY <2>1, <2>2
  <2>4. pc[c] \in Holds \ {"copy"} BY DEF Holds
  <2>5. /\ at[c] < Shown(c) => name[at[c]] = c
        /\ at[c] = Shown(c) => name[at[c]] = None
    BY <2>3, <2>4, FirstZero
  <2>6. at'[c] <= Shown(c) /\ len'[c] \in {-1, Shown(c)}
    <3>1. CASE name[at[c]] = None
      <4>1. at[c] = Shown(c) BY <3>1, <2>2, <2>3, <2>5, Sizes
      <4> QED BY <3>1, <4>1, <1>3, <1>1, <2>1 DEF TypeOK
    <3>2. CASE name[at[c]] # None
      <4>1. at[c] < Shown(c) BY <3>2, <2>2, <2>3, <2>5
      <4>2. at'[c] = at[c] + 1 /\ len'[c] = -1 BY <3>2, <1>1, <1>2, <1>3 DEF TypeOK
      <4> QED BY <4>1, <4>2, <2>2, <2>3
    <3> QED BY <3>1, <3>2
  <2>7. Shown(c)' = Shown(c) BY <1>2 DEF Shown, texts
  <2> QED BY <2>1, <2>6, <2>7, <1>2 DEF Reading
<1>8. Label(c)' BY <1>2 DEF Label, Reads
<1>9. Mixed(c)' BY <1>1, <1>2 DEF HandlerInv, Mixed, Later
<1>10. \A d \in Handlers \ {c} : UNCHANGED <<at[d], len[d]>> BY <1>1, <1>3 DEF TypeOK
<1> QED BY <1>2, <1>6, <1>7, <1>8, <1>9, <1>10, Quiet DEF Reads, Past, Holds

\* What is copied from name[] belongs to the reader, or to handlers that came later.
LEMMA FetchInv == ASSUME IInv, NEW c \in Handlers, Fetch(c) PROVE IInv'
<1>1. TypeOK /\ HandlerInv(c) BY DEF IInv
<1> DEFINE k == Len(seen[c])
<1>2. /\ k < len[c] /\ pc[c] \in Reads
      /\ seen' = [seen EXCEPT ![c] = Append(seen[c], name[k])]
      /\ UNCHANGED <<texts, name, owner, mutex, pc, todo, at, len, text, message, claims>>
  BY DEF Fetch
<1>3. seen[c] \in Seq(Handlers \cup {None}) /\ len[c] \in Places \cup {-1} BY <1>1, Types
<1>4. k \in Places /\ len[c] \in Places
  BY <1>2, <1>3, Sizes DEF Places
<1>5. name[k] \in Handlers \cup {None} BY <1>1, <1>4 DEF TypeOK
<1>6. /\ seen' \in [Handlers -> Seq(Handlers \cup {None})]
      /\ seen'[c] = Append(seen[c], name[k])
      /\ \A d \in Handlers \ {c} : seen'[d] = seen[d]
  <2>1. Append(seen[c], name[k]) \in Seq(Handlers \cup {None}) BY <1>3, <1>5
  <2> HIDE DEF k
  <2> QED BY <2>1, <1>1, <1>2 DEF TypeOK
<1>7. TypeOK' BY <1>1, <1>2, <1>6 DEF TypeOK, texts
<1>8. \A i \in DOMAIN seen'[c] : \/ i \in DOMAIN seen[c] /\ seen'[c][i] = seen[c][i]
                                 \/ seen'[c][i] = name[k]
  BY <1>3, <1>5, <1>6
<1>9. Reading(c)'
  <2> SUFFICES ASSUME pc[c] \in {"greet", "format"} PROVE Reading(c)'
    BY <1>2 DEF Reading
  <2>1. /\ at[c] <= Shown(c) /\ len[c] \in {-1, Shown(c)}
        /\ \A i \in DOMAIN seen[c] : seen[c][i] = c
    BY <1>1 DEF HandlerInv, Reading
  <2>2. k < Shown(c) /\ k \in 0 .. Shown(c)
    BY <2>1, <1>1, <1>2, <1>4, ShownFacts, Sizes DEF Places
  <2>3. name[k] = c
    <3>1. pc[c] \in Holds \ {"copy"} BY DEF Holds
    <3> HIDE DEF k
    <3> QED BY <2>2, <3>1, FirstZero
  <2>4. Shown(c)' = Shown(c) BY <1>2 DEF Shown, texts
  <2>5. \A i \in DOMAIN seen'[c] : seen'[c][i] = c BY <2>1, <2>3, <1>8
  <2> QED BY <2>1, <2>4, <2>5, <1>2 DEF Reading
<1>10. Label(c)' BY <1>2 DEF Label, Reads
<1>11. Mixed(c)'
  <2>1. name[k] # None => Later(c, name[k])
    BY <1>1, <1>2, <1>4 DEF HandlerInv, Overwritten, Past, Holds, Reads
  <2>2. \A d : Later(c, d)' = Later(c, d) BY <1>2 DEF Later
  <2> QED BY <2>1, <2>2, <1>1, <1>8 DEF HandlerInv, Mixed
<1> QED BY <1>2, <1>6, <1>7, <1>9, <1>10, <1>11, Quiet DEF Reads, Past, Holds

-----------------------------------------------------------------------------

\* Nobody else holds an entry that is claimed.
LEMMA ClaimInv == ASSUME IInv, NEW c \in Handlers, Claim(c) PROVE IInv'
<1>1. TypeOK /\ HandlerInv(c) BY DEF IInv
<1>2. /\ pc[c] = "claim" /\ owner = None /\ owner' = c /\ mutex' = c
      /\ todo' = [todo EXCEPT ![c] = Written] /\ claims' = Append(claims, c)
      /\ pc' = [pc EXCEPT ![c] = "copy"]
      /\ UNCHANGED <<texts, name, reader, text, message>>
  BY DEF Claim, Goto
<1>3. claims \in Seq(Handlers) BY <1>1 DEF TypeOK
<1>4. Written \subseteq Places BY DEF Written
<1>5. TypeOK' BY <1>1, <1>2, <1>3, <1>4, SMTT(60) DEF TypeOK, texts, reader
<1>6. claims' # <<>> /\ claims'[Len(claims')] = c /\ Len(claims') \in DOMAIN claims'
  BY <1>2, <1>3
<1>7. ASSUME NEW d \in Handlers \ {c} PROVE HandlerInv(d)'
  <2>1. pc[d] \notin Holds BY <1>2, Sizes DEF IInv, HandlerInv, Owned
  <2>2. UNCHANGED <<pc[d], todo[d], at[d], len[d], seen[d], message[d]>>
    BY <1>1, <1>2 DEF TypeOK, reader
  <2> QED BY <2>1, <2>2, <1>2, Kept
<1>8. HandlerInv(c)'
  <2>1. pc'[c] = "copy" /\ todo'[c] = Written BY <1>1, <1>2 DEF TypeOK
  <2>2. Owned(c)' /\ Copied(c)' BY <2>1, <1>2 DEF Owned, Copied
  <2>3. Reading(c)' /\ Label(c)' /\ Overwritten(c)'
    BY <2>1 DEF Reading, Label, Overwritten, Past, Holds
  <2>4. Claimed(c)' BY <1>6 DEF Claimed
  <2>5. Mixed(c)'
    <3>1. \A d : Later(c, d) => Later(c, d)' BY <1>1, <1>2, LaterKept
    <3> QED BY <3>1, <1>1, <1>2 DEF HandlerInv, Mixed, reader
  <2> QED BY <2>1, <2>2, <2>3, <2>4, <2>5 DEF HandlerInv
<1>9. Newest' BY <1>2, <1>6 DEF Newest
<1> QED BY <1>2, <1>5, <1>7, <1>8, <1>9 DEF IInv

\* The owner writes, which is the newest one, and not in the last place.
LEMMA CopyByteInv ==
    ASSUME IInv, NEW c \in Handlers, NEW i \in Places, CopyByte(c, i)
    PROVE  IInv'
<1>1. TypeOK /\ HandlerInv(c) BY DEF IInv
<1> DEFINE byte == IF i < nick[c] THEN c ELSE None
<1>2. /\ pc[c] = "copy" /\ i \in todo[c] /\ i \in Written
      /\ name' = [name EXCEPT ![i] = byte]
      /\ todo' = [todo EXCEPT ![c] = todo[c] \ {i}]
      /\ UNCHANGED <<texts, owner, mutex, pc, reader, text, message, claims>>
  BY <1>1 DEF CopyByte, HandlerInv
<1>3. byte \in Handlers \cup {None} OBVIOUS
<1>4. TypeOK'
  <2>1. name' \in [Places -> Handlers \cup {None}] BY <1>1, <1>2, <1>3 DEF TypeOK
  <2>2. todo' \in [Handlers -> SUBSET Places] BY <1>1, <1>2 DEF TypeOK
  <2> QED BY <2>1, <2>2, <1>1, <1>2 DEF TypeOK, texts, reader
<1>5. /\ name'[i] = byte
      /\ \A p \in Places : p # i => name'[p] = name[p]
  BY <1>1, <1>2 DEF TypeOK
<1>6. name'[NAME - 1] = None BY <1>2, <1>5, Sizes DEF IInv, Written
<1>7. owner = c BY <1>1, <1>2 DEF HandlerInv, Owned, Holds
<1>8. claims \in Seq(Handlers) /\ claims # <<>> /\ claims[Len(claims)] = c
  BY <1>1, <1>7, Sizes DEF IInv, Newest, TypeOK
<1>9. \A d, e : Later(d, e)' = Later(d, e) BY <1>2 DEF Later
<1>10. ASSUME NEW d \in Handlers \ {c} PROVE HandlerInv(d)'
  <2>1. HandlerInv(d) BY DEF IInv
  <2>2. pc[d] \notin Holds BY <2>1, <1>7 DEF HandlerInv, Owned
  <2>3. UNCHANGED <<pc[d], todo[d], at[d], len[d], seen[d], message[d]>>
    BY <1>1, <1>2 DEF TypeOK, reader
  <2>4. Owned(d)' /\ Copied(d)' /\ Reading(d)' /\ Label(d)'
    BY <2>2, <2>3 DEF Owned, Copied, Reading, Label, Holds
  <2>5. Claimed(d)' /\ Mixed(d)' BY <2>1, <2>3, <1>2, <1>9 DEF HandlerInv, Claimed, Mixed
  <2>6. Overwritten(d)'
    <3> SUFFICES ASSUME pc[d] \in Past, NEW p \in Places, name'[p] # None
                 PROVE  Later(d, name'[p])
      BY <2>3, <1>9 DEF Overwritten
    <3>1. CASE p # i BY <3>1, <1>5, <2>1 DEF HandlerInv, Overwritten
    <3>2. CASE p = i
      <4>1. name'[p] = c BY <3>2, <1>5
      <4>2. PICK j \in DOMAIN claims : claims[j] = d
        BY <2>1 DEF HandlerInv, Claimed, Past
      <4>3. Len(claims) \in DOMAIN claims /\ j <= Len(claims) BY <1>8, <4>2
      <4> QED BY <4>1, <4>2, <4>3, <1>8 DEF Later
    <3> QED BY <3>1, <3>2
  <2> QED BY <2>1, <2>3, <2>4, <2>5, <2>6 DEF HandlerInv
<1>11. HandlerInv(c)'
  <2>1. UNCHANGED <<pc[c], at[c], len[c], seen[c], message[c], nick[c]>>
        /\ todo'[c] = todo[c] \ {i}
    BY <1>1, <1>2 DEF TypeOK, reader, texts
  <2>2. Owned(c)' BY <1>2, <1>7 DEF Owned
  <2>3. Copied(c)'
    <3>1. \A p \in Written : p \in Places BY DEF Written
    <3> QED BY <2>1, <3>1, <1>1, <1>2, <1>5 DEF HandlerInv, Copied, Holds
  <2>4. Reading(c)' /\ Label(c)' /\ Overwritten(c)'
    BY <2>1, <1>2 DEF Reading, Label, Overwritten, Past, Holds
  <2>5. Claimed(c)' /\ Mixed(c)' BY <2>1, <1>1, <1>2, <1>9 DEF HandlerInv, Claimed, Mixed
  <2> QED BY <2>1, <2>2, <2>3, <2>4, <2>5, <1>1 DEF HandlerInv
<1>12. Newest' BY <1>2 DEF IInv, Newest
<1> QED BY <1>4, <1>6, <1>10, <1>11, <1>12 DEF IInv

\* Every step of every handler.
LEMMA NextInv == IInv /\ [Next]_vars => IInv'
<1> SUFFICES ASSUME IInv, [Next]_vars PROVE IInv' OBVIOUS
<1>1. CASE Next
  <2>1. PICK c \in Handlers : Handler(c) BY <1>1 DEF Next
  <2>2. CASE Claim(c) BY <2>2, ClaimInv
  <2>3. CASE ClaimElsewhere(c) \/ Broadcast(c) \/ Leave(c) \/ Goodbye(c) BY <2>3, PlainInv
  <2>4. CASE CopyEnds(c) BY <2>4, CopyEndsInv
  <2>5. CASE \E i \in Places : CopyByte(c, i) BY <2>5, CopyByteInv
  <2>6. CASE Measure(c) BY <2>6, MeasureInv
  <2>7. CASE Fetch(c) BY <2>7, FetchInv
  <2>8. CASE Greet(c) BY <2>8, GreetInv
  <2>9. CASE RecvLine(c) BY <2>9, RecvLineInv
  <2>10. CASE Format(c) BY <2>10, FormatInv
  <2>11. CASE Release(c) BY <2>11, ReleaseInv
  <2> QED BY <2>1, <2>2, <2>3, <2>4, <2>5, <2>6, <2>7, <2>8, <2>9, <2>10, <2>11 DEF Handler
<1>2. CASE UNCHANGED vars
  <2>1. UNCHANGED <<nick, ip, name, owner, mutex, pc, todo, at, len, seen, text, message, claims>>
    BY <1>2 DEF vars, texts, reader
  <2>2. TypeOK' BY <2>1 DEF IInv, TypeOK
  <2>3. Newest' /\ name'[NAME - 1] = None BY <2>1 DEF IInv, Newest
  <2>4. ASSUME NEW d \in Handlers PROVE HandlerInv(d)'
    <3>1. pc[d] \in Holds => owner' = d BY <2>1 DEF IInv, HandlerInv, Owned
    <3> QED BY <3>1, <2>1, Kept DEF texts
  <2> QED BY <2>2, <2>3, <2>4 DEF IInv
<1> QED BY <1>1, <1>2

\* The inductive invariant.
THEOREM Invariant == Spec => []IInv
BY InitInv, NextInv, PTL DEF Spec

\* TypeOK of SocketServer.c's entry: a "%s" never leaves name[], also while another
\* handler writes it.
THEOREM NeverLeavesName == Spec => []TypeOK
<1>1. IInv => TypeOK BY DEF IInv
<1> QED BY <1>1, Invariant, PTL

\* A label that broadcastMessage() relays is the beginning of its sender's own
\* nickname, whoever had the entry before.
THEOREM LabelIsOwnName == Spec => []OwnName
<1>1. IInv => OwnName BY DEF IInv, HandlerInv, Label, OwnName
<1> QED BY <1>1, Invariant, PTL

\* What snprintf() cuts off a line is text only, and nothing when name and address
\* are short enough.
THEOREM OnlyTextIsLost == Spec => []LineLost
<1>1. IInv => LineLost BY DEF IInv, HandlerInv, Label, LineLost
<1> QED BY <1>1, Invariant, PTL

\* The line printed after the entry was given back is mixed of later owners' names.
THEOREM GoodbyeOfLaterOwners == Spec => []MixedWithLater
<1>1. IInv => MixedWithLater BY DEF IInv, HandlerInv, Mixed, MixedWithLater
<1> QED BY <1>1, Invariant, PTL
===============================================================================
