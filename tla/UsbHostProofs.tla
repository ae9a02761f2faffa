---------------------------- MODULE UsbHostProofs ----------------------------
(***************************************************************************)
(* What is proved about the USB host and its keyboard, for any keys, any   *)
(* number of them in a report, any addresses and any presses.              *)
(*                                                                         *)
(* DeskInv, PowerInv and ReplInv say what the boot's code, the library and *)
(* the keyboard code agree on; OrderInv says where in the order of the     *)
(* presses the report, the keys and the characters are.  usbkbd_getc's     *)
(* loop over a report is a recursive function: what it computes            *)
(* (ScanResult) is proved by induction over the places of the report, with *)
(* the induction in the form of a set (NatSetInduction).                   *)
(***************************************************************************)
EXTENDS UsbHost, MailboxProofs, WellFoundedInduction

\* A nonempty set of naturals has a least element.
LEMMA LeastNat ==
  ASSUME NEW T, T \subseteq Nat, T # {}
  PROVE  \E n \in T : \A m \in T : n <= m
<1>1. \E n \in T : \A m \in T : <<m, n>> \notin OpToRel(<, Nat)
  BY NatLessThanWellFounded, WFMin
<1>2. \A m, n \in Nat : <<m, n>> \notin OpToRel(<, Nat) => n <= m
  BY DEF OpToRel
<1> QED BY <1>1, <1>2

\* A set of naturals with 0 and the successor of each of its elements has all.
LEMMA NatSetInduction ==
  ASSUME NEW S, 0 \in S, \A n \in Nat : n \in S => n + 1 \in S
  PROVE  Nat \subseteq S
<1>. SUFFICES ASSUME Nat \ S # {} PROVE FALSE
  OBVIOUS
<1>1. PICK n \in Nat \ S : \A m \in Nat \ S : n <= m
  BY LeastNat
<1>2. n - 1 \in Nat /\ n - 1 \notin Nat \ S
  BY <1>1
<1>. QED BY <1>1, <1>2

-----------------------------------------------------------------------------
(* The loop over a report. *)

Entries == Keys \cup {0}

Start == [keys |-> keys, result |-> 0]
Turn(r, s, i) ==
  [keys |-> [s.keys EXCEPT ![i] = r[i]],
   result |-> IF r[i] # 0 /\ (\A j \in 1 .. Slots : s.keys[j] # r[i]) THEN r[i] ELSE s.result]
Loop(r, f) == [i \in 0 .. Slots |-> IF i = 0 THEN Start ELSE Turn(r, f[i - 1], i)]

\* Scan is what the last turn of the loop leaves, and the loop is well defined.
LEMMA ScanLoop ==
  ASSUME NEW r
  PROVE  \E f : f = Loop(r, f) /\ Scan(r) = f[Slots]
<1>. DEFINE Upto(n, f) == f = [i \in 0 .. n |-> IF i = 0 THEN Start ELSE Turn(r, f[i - 1], i)]
            T == {n \in Nat : \E f : Upto(n, f)}
<1>1. 0 \in T
  <2>1. Upto(0, [i \in 0 .. 0 |-> Start])
    OBVIOUS
  <2>. QED BY <2>1
<1>2. ASSUME NEW n \in Nat, n \in T PROVE n + 1 \in T
  <2>1. PICK f : Upto(n, f)
    BY <1>2
  <2>. DEFINE g == [i \in 0 .. n + 1 |-> IF i = 0 THEN Start ELSE Turn(r, f[i - 1], i)]
  <2>2. \A i \in 0 .. n : g[i] = f[i]
    <3>. SUFFICES ASSUME NEW i \in 0 .. n PROVE g[i] = f[i]
      OBVIOUS
    <3>1. g[i] = IF i = 0 THEN Start ELSE Turn(r, f[i - 1], i)
      OBVIOUS
    <3>2. f[i] = IF i = 0 THEN Start ELSE Turn(r, f[i - 1], i)
      BY <2>1
    <3>. HIDE DEF g
    <3>. QED BY <3>1, <3>2
  <2>3. \A i \in 0 .. n + 1 : i # 0 => i - 1 \in 0 .. n
    OBVIOUS
  <2>4. g = [i \in 0 .. n + 1 |-> IF i = 0 THEN Start ELSE Turn(r, g[i - 1], i)]
    <3>1. \A i \in 0 .. n + 1 : i # 0 => g[i - 1] = f[i - 1]
      <4>. HIDE DEF g
      <4>. QED BY <2>2, <2>3
    <3>. QED BY <3>1, Zenon
  <2>5. Upto(n + 1, g)
    <3>. HIDE DEF g
    <3>. QED BY <2>4
  <2>6. n + 1 \in Nat /\ \E h : Upto(n + 1, h)
    <3>. HIDE DEF g, Upto
    <3>. QED BY <2>5
  <2>. HIDE DEF Upto
  <2>. QED BY <2>6
<1>3. Slots \in T
  <2>. HIDE DEF T
  <2>. QED BY <1>1, <1>2, NatSetInduction, UsbAssumption
<1>4. PICK h : h = Loop(r, h)
  BY <1>3 DEF Loop
<1>. DEFINE s == CHOOSE f : f = Loop(r, f)
<1>5. s = Loop(r, s)
  BY <1>4, Zenon
<1>6. Scan(r) = s[Slots]
  BY Zenon DEF Scan, Loop, Turn, Start
<1>. QED BY <1>5, <1>6, Zenon

\* After a scan the keyboard code has the keys of the report; a key it returns is
\* one of the report, and was down neither at its place nor at a later one.
LEMMA ScanResult ==
  ASSUME NEW r \in [1 .. Slots -> Entries], keys \in [1 .. Slots -> Entries]
  PROVE  /\ Scan(r).keys = r
         /\ \/ Scan(r).result = 0
            \/ \E i \in 1 .. Slots :
                 /\ r[i] # 0 /\ Scan(r).result = r[i]
                 /\ \A j \in i .. Slots : keys[j] # r[i]
<1>1. PICK f : f = Loop(r, f) /\ Scan(r) = f[Slots]
  BY ScanLoop
<1>. DEFINE Replaced(i) == [j \in 1 .. Slots |-> IF j <= i THEN r[j] ELSE keys[j]]
            Returned(x, i) == \/ x = 0
                              \/ \E k \in 1 .. i : /\ r[k] # 0 /\ x = r[k]
                                                   /\ \A j \in k .. Slots : keys[j] # r[k]
            Good(i) == i \in 0 .. Slots =>
                         /\ f[i].keys = Replaced(i)
                         /\ Returned(f[i].result, i)
            S == {i \in Nat : Good(i)}
<1>2. Slots \in Nat
  BY UsbAssumption
<1>3. \A i \in 0 .. Slots : f[i] = IF i = 0 THEN Start ELSE Turn(r, f[i - 1], i)
  BY <1>1, Zenon DEF Loop
<1>4. 0 \in S
  <2>1. f[0] = Start
    BY <1>2, <1>3
  <2>2. Replaced(0) = keys
    OBVIOUS
  <2>3. f[0].keys = keys /\ f[0].result = 0
    BY <2>1 DEF Start
  <2>4. f[0].keys = Replaced(0)
    BY <2>2, <2>3
  <2>5. Returned(f[0].result, 0)
    BY <2>3
  <2>. HIDE DEF Replaced, Returned
  <2>. QED BY <2>4, <2>5
<1>5. ASSUME NEW n \in Nat, n \in S PROVE n + 1 \in S
  <2>. SUFFICES ASSUME n + 1 \in 0 .. Slots PROVE Good(n + 1)
    OBVIOUS
  <2>1. n \in 0 .. Slots /\ n + 1 # 0 /\ (n + 1) - 1 = n /\ n + 1 \in 1 .. Slots
    BY <1>2
  <2>2. f[n + 1] = Turn(r, f[n], n + 1)
    <3>1. f[n + 1] = IF n + 1 = 0 THEN Start ELSE Turn(r, f[(n + 1) - 1], n + 1)
      BY <1>3
    <3>. QED BY <2>1, <3>1, Zenon
  <2>3. f[n].keys = Replaced(n) /\ Returned(f[n].result, n)
    BY <1>5, <2>1
  <2>4. f[n + 1].keys = [Replaced(n) EXCEPT ![n + 1] = r[n + 1]]
    <3>1. f[n + 1].keys = [f[n].keys EXCEPT ![n + 1] = r[n + 1]]
      BY <2>2 DEF Turn
    <3>. HIDE DEF Replaced
    <3>. QED BY <2>3, <3>1
  <2>5. [Replaced(n) EXCEPT ![n + 1] = r[n + 1]] = Replaced(n + 1)
    <3>1. \A j \in 1 .. Slots : j <= n + 1 <=> j <= n \/ j = n + 1
      BY <1>2
    <3>2. \A j \in 1 .. Slots : [Replaced(n) EXCEPT ![n + 1] = r[n + 1]][j] = Replaced(n + 1)[j]
      BY <2>1, <3>1
    <3>. QED BY <3>2
  <2>6. f[n + 1].result = IF r[n + 1] # 0 /\ (\A j \in 1 .. Slots : Replaced(n)[j] # r[n + 1])
                          THEN r[n + 1] ELSE f[n].result
    <3>1. f[n + 1].result = IF r[n + 1] # 0 /\ (\A j \in 1 .. Slots : f[n].keys[j] # r[n + 1])
                            THEN r[n + 1] ELSE f[n].result
      BY <2>2 DEF Turn
    <3>. HIDE DEF Replaced, Returned
    <3>. QED BY <2>3, <3>1
  <2>7. Returned(f[n + 1].result, n + 1)
    <3>1. CASE r[n + 1] # 0 /\ \A j \in 1 .. Slots : Replaced(n)[j] # r[n + 1]
      <4>1. f[n + 1].result = r[n + 1]
        BY <2>6, <3>1
      <4>2. \A j \in n + 1 .. Slots : j \in 1 .. Slots /\ ~(j <= n)
        BY <2>1
      <4>3. \A j \in n + 1 .. Slots : keys[j] # r[n + 1]
        BY <3>1, <4>2
      <4>. QED BY <2>1, <3>1, <4>1, <4>3
    <3>2. CASE ~(r[n + 1] # 0 /\ \A j \in 1 .. Slots : Replaced(n)[j] # r[n + 1])
      <4>1. f[n + 1].result = f[n].result
        BY <2>6, <3>2
      <4>2. \A k \in 1 .. n : k \in 1 .. n + 1
        BY <2>1
      <4>. QED BY <2>3, <4>1, <4>2
    <3>. QED BY <3>1, <3>2
  <2>. QED BY <2>4, <2>5, <2>7
<1>6. Slots \in S
  <2>. HIDE DEF S
  <2>1. S \subseteq Nat
    BY DEF S
  <2>. QED BY <1>2, <1>4, <1>5, NatSetInduction
<1>7. Replaced(Slots) = r
  BY <1>2
<1>8. Scan(r).keys = r
  BY <1>1, <1>2, <1>6, <1>7
<1>9. Returned(Scan(r).result, Slots)
  BY <1>1, <1>2, <1>6
<1>. QED BY <1>8, <1>9

-----------------------------------------------------------------------------
(* The keys that are down, and the report of them. *)

\* Keys that stay down keep their order when another one is released.
LEMMA Removed ==
  ASSUME NEW s \in Seq(Keys), NEW i \in DOMAIN s
  PROVE  /\ RemoveAt(s, i) \in Seq(Keys) /\ Len(RemoveAt(s, i)) = Len(s) - 1
         /\ \A j \in DOMAIN RemoveAt(s, i) :
              \E k \in DOMAIN s : k \in {j, j + 1} /\ RemoveAt(s, i)[j] = s[k] /\ (k = j <=> j < i)
<1>. DEFINE a == SubSeq(s, 1, i - 1)
            b == SubSeq(s, i + 1, Len(s))
<1>1. Len(s) \in Nat /\ i \in 1 .. Len(s) /\ \A k \in 1 .. Len(s) : s[k] \in Keys
  BY LenProperties, ElementOfSeq
<1>2. a \in Seq(Keys) /\ Len(a) = i - 1 /\ \A k \in 1 .. i - 1 : a[k] = s[k]
  <2>1. /\ SubSeq(s, 1, i - 1) \in Seq(Keys)
        /\ Len(SubSeq(s, 1, i - 1)) = IF 1 <= i - 1 THEN (i - 1) - 1 + 1 ELSE 0
        /\ \A k \in 1 .. (i - 1) - 1 + 1 : SubSeq(s, 1, i - 1)[k] = s[1 + k - 1]
    <3>. \A k \in 1 .. i - 1 : s[k] \in Keys
      BY <1>1
    <3>. QED BY <1>1, SubSeqProperties
  <2>2. (i - 1) - 1 + 1 = i - 1 /\ \A k \in 1 .. i - 1 : 1 + k - 1 = k
    BY <1>1
  <2>. QED BY <1>1, <2>1, <2>2
<1>3. b \in Seq(Keys) /\ Len(b) = Len(s) - i /\ \A k \in 1 .. Len(s) - i : b[k] = s[i + k]
  <2>1. /\ SubSeq(s, i + 1, Len(s)) \in Seq(Keys)
        /\ Len(SubSeq(s, i + 1, Len(s))) = IF i + 1 <= Len(s) THEN Len(s) - (i + 1) + 1 ELSE 0
        /\ \A k \in 1 .. Len(s) - (i + 1) + 1 : SubSeq(s, i + 1, Len(s))[k] = s[(i + 1) + k - 1]
    <3>. \A k \in i + 1 .. Len(s) : s[k] \in Keys
      BY <1>1
    <3>. QED BY <1>1, SubSeqProperties
  <2>2. Len(s) - (i + 1) + 1 = Len(s) - i /\ \A k \in 1 .. Len(s) - i : (i + 1) + k - 1 = i + k
    BY <1>1
  <2>. QED BY <1>1, <2>1, <2>2
<1>4. RemoveAt(s, i) = a \o b
  BY DEF RemoveAt
<1>. HIDE DEF a, b
<1>5. /\ a \o b \in Seq(Keys) /\ Len(a \o b) = Len(s) - 1
      /\ \A j \in 1 .. Len(s) - 1 : (a \o b)[j] = IF j <= i - 1 THEN a[j] ELSE b[j - (i - 1)]
  <2>1. Len(a) + Len(b) = Len(s) - 1
    BY <1>1, <1>2, <1>3
  <2>2. /\ a \o b \in Seq(Keys) /\ Len(a \o b) = Len(a) + Len(b)
        /\ \A j \in 1 .. Len(a) + Len(b) : (a \o b)[j] = IF j <= Len(a) THEN a[j] ELSE b[j - Len(a)]
    BY <1>2, <1>3, ConcatProperties
  <2>. QED BY <1>2, <2>1, <2>2
<1>6. ASSUME NEW j \in 1 .. Len(s) - 1
      PROVE  \E k \in 1 .. Len(s) : k \in {j, j + 1} /\ (a \o b)[j] = s[k] /\ (k = j <=> j < i)
  <2>1. CASE j < i
    <3>1. j \in 1 .. i - 1 /\ j \in 1 .. Len(s)
      BY <1>1, <2>1
    <3>. QED BY <1>2, <1>5, <2>1, <3>1
  <2>2. CASE ~(j < i)
    <3>1. /\ ~(j <= i - 1) /\ j - (i - 1) \in 1 .. Len(s) - i /\ i + (j - (i - 1)) = j + 1
          /\ j + 1 \in 1 .. Len(s) /\ j + 1 # j
      BY <1>1, <2>2
    <3>2. (a \o b)[j] = s[j + 1]
      <4>1. (a \o b)[j] = b[j - (i - 1)]
        BY <1>5, <3>1
      <4>2. b[j - (i - 1)] = s[i + (j - (i - 1))]
        BY <1>3, <3>1
      <4>. QED BY <3>1, <4>1, <4>2
    <3>. QED BY <2>2, <3>1, <3>2
  <2>. QED BY <2>1, <2>2
<1>7. DOMAIN s = 1 .. Len(s) /\ DOMAIN (a \o b) = 1 .. Len(s) - 1
  BY <1>5, LenProperties
<1>. QED BY <1>4, <1>5, <1>6, <1>7

\* A report lists the keys that are down, each at its place.
LEMMA ReportOfHeld ==
  ASSUME held \in Seq(Keys), Len(held) <= Slots
  PROVE  /\ Report(held) \in [1 .. Slots -> Entries]
         /\ \A i \in DOMAIN held : i \in 1 .. Slots /\ Report(held)[i] = held[i]
         /\ \A i \in 1 .. Slots : Report(held)[i] # 0 <=> i \in DOMAIN held
<1>1. DOMAIN held = 1 .. Len(held) /\ Len(held) \in Nat /\ \A i \in 1 .. Len(held) : held[i] \in Keys
  BY LenProperties, ElementOfSeq
<1>2. 0 \notin Keys /\ Slots \in Nat
  BY UsbAssumption
<1>3. \A i \in 1 .. Len(held) : i \in 1 .. Slots /\ i <= Len(held)
  BY <1>1, <1>2
<1>4. \A i \in 1 .. Slots : i <= Len(held) <=> i \in 1 .. Len(held)
  BY <1>1, <1>2
<1>5. \A i \in 1 .. Slots : Report(held)[i] = IF i <= Len(held) THEN held[i] ELSE 0
  BY DEF Report
<1>6. Report(held) \in [1 .. Slots -> Entries]
  <2>1. \A i \in 1 .. Slots : (IF i <= Len(held) THEN held[i] ELSE 0) \in Entries
    BY <1>1, <1>4 DEF Entries
  <2>. QED BY <2>1 DEF Report
<1>. QED BY <1>1, <1>2, <1>3, <1>4, <1>5, <1>6

-----------------------------------------------------------------------------
(* Types, and what the host, the library and the keyboard agree on. *)

UsbTypes ==
  /\ phase \in {"script", "init", "repl", "hang"}
  /\ host \in {"idle", "power_on", "delay", "power_off"}
  /\ usb_initialised \in BOOLEAN /\ library \in BOOLEAN /\ live \in BOOLEAN
  /\ plugged \in BOOLEAN /\ disturbed \in BOOLEAN /\ power \in BOOLEAN
  /\ addr \in Addresses \cup {0} /\ kbd_addr \in Addresses \cup {0}
  /\ report \in [1 .. Slots -> Entries] /\ keys \in [1 .. Slots -> Entries]
  /\ held \in Seq(Keys) /\ Len(held) <= Slots
  /\ pressed \in Seq(Keys) /\ got \in Seq(Keys)

\* The library knows a keyboard only while it runs, and what it knows of the one
\* that is plugged in is of that one.
DeskInv ==
  /\ ~plugged => held = << >> /\ ~live
  /\ live => library /\ addr # 0
  /\ ~library => addr = 0 /\ report = NoKeys

\* The library runs between the host's init and its deinit, and has power.
PowerInv ==
  /\ library => power /\ usb_initialised /\ host \notin {"power_on", "power_off"}
  /\ call.at # "none" => /\ call.who = "power_usb" /\ call.message \in BOOLEAN
                         /\ host \in {"power_on", "power_off"}

Reading == phase = "repl" /\ ~disturbed

\* While the REPL reads, the USB stays on and the keyboard is the library's.
ReplInv ==
  /\ phase # "repl" => got = << >>
  /\ Reading => usb_initialised /\ host = "idle" /\ (kbd_addr # 0 => kbd_addr = addr)

\* usbkbd_getc with the choices made: the keyboard that is known, the report that
\* is listed, the one that is read, whether the poll succeeds, and the address.
Getc(known, listed, read, polled, a) ==
  /\ a = IF kbd_addr = 0 THEN known ELSE kbd_addr
  /\ kbd_addr = 0 => UsbCheckForChange(known, listed) /\ live' = (library /\ plugged)
  /\ kbd_addr # 0 => known = addr /\ listed = report /\ live' = live
  /\ library => /\ read = IF a = known THEN listed ELSE NoKeys
                /\ polled = (a = known /\ live')
  /\ addr' = known
  /\ report' = IF polled /\ library THEN Report(held) ELSE listed
  /\ kbd_addr' = IF polled THEN a ELSE 0
  /\ disturbed' = (disturbed \/ (a # 0 /\ ~library))
  /\ a = 0 => keys' = keys /\ got' = got
  /\ a # 0 => /\ keys' = Scan(read).keys
              /\ got' = IF Scan(read).result = 0 \/ phase = "script" \/ disturbed' THEN got
                        ELSE Append(got, Scan(read).result)

\* A call of usbkbd_getc makes these choices.
LEMMA GetcChoices ==
  ASSUME usbkbd_getc
  PROVE  /\ phase \in {"script", "repl"} /\ HostIdle
         /\ UNCHANGED <<hostVars, library, deskVars, pressed, mailVars>>
         /\ \E known \in {0} \cup Addresses, listed, read \in {report, NoKeys}, polled \in BOOLEAN :
              \E a : Getc(known, listed, read, polled, a)
<1>1. PICK known \in {0} \cup Addresses, listed, read \in {report, NoKeys}, polled \in BOOLEAN :
        LET a == IF kbd_addr = 0 THEN known ELSE kbd_addr
            s == Scan(read)
        IN /\ IF kbd_addr = 0
              THEN UsbCheckForChange(known, listed) /\ live' = (library /\ plugged)
              ELSE known = addr /\ listed = report /\ UNCHANGED live
           /\ library => /\ read = IF a = known THEN listed ELSE NoKeys
                         /\ polled = (a = known /\ live')
           /\ addr' = known
           /\ report' = IF polled /\ library THEN Report(held) ELSE listed
           /\ kbd_addr' = AfterPoll(a, polled)
           /\ disturbed' = (disturbed \/ (a # 0 /\ ~library))
           /\ IF a = 0 THEN UNCHANGED <<keys, got, fresh>>
              ELSE /\ keys' = s.keys
                   /\ got' = IF s.result = 0 \/ phase = "script" \/ disturbed' THEN got
                             ELSE Append(got, s.result)
                   /\ fresh' = IF s.result = fresh THEN 0 ELSE fresh
  BY Zenon DEF usbkbd_getc
<1>2. Getc(known, listed, read, polled, IF kbd_addr = 0 THEN known ELSE kbd_addr)
  BY <1>1 DEF Getc, AfterPoll
<1>. QED BY <1>2, Zenon DEF usbkbd_getc

\* What a turn of the reading loop does to the library, the keys and the characters.
LEMMA GetcTypes ==
  ASSUME UsbTypes, DeskInv, NEW known \in {0} \cup Addresses,
         NEW listed \in {report, NoKeys}, NEW read \in {report, NoKeys}, NEW polled \in BOOLEAN, NEW a,
         Getc(known, listed, read, polled, a)
  PROVE  /\ a \in {0} \cup Addresses /\ addr' = known
         /\ live' \in BOOLEAN /\ disturbed' \in BOOLEAN
         /\ kbd_addr' \in {0, a}
         /\ report' \in [1 .. Slots -> Entries] /\ keys' \in [1 .. Slots -> Entries]
         /\ got' \in Seq(Keys) /\ (phase = "script" => got' = got)
         /\ ~plugged => ~live'
         /\ live' => library /\ addr' # 0
         /\ ~library => addr' = 0 /\ report' = NoKeys
<1>1. NoKeys \in [1 .. Slots -> Entries]
  BY DEF NoKeys, Entries
<1>2. read \in [1 .. Slots -> Entries] /\ listed \in [1 .. Slots -> Entries]
  BY <1>1 DEF UsbTypes
<1>3. /\ Scan(read).keys = read
      /\ Scan(read).result # 0 => Scan(read).result \in Keys
  <2>1. keys \in [1 .. Slots -> Entries]
    BY DEF UsbTypes
  <2>. QED BY <1>2, <2>1, ScanResult DEF Entries
<1>4. a \in {0} \cup Addresses
  BY DEF Getc, UsbTypes
<1>5. live' \in BOOLEAN /\ (~plugged => ~live') /\ (live' => library)
  <2>1. CASE kbd_addr = 0
    BY <2>1 DEF Getc, UsbTypes
  <2>2. CASE kbd_addr # 0
    BY <2>2 DEF Getc, UsbTypes, DeskInv
  <2>. QED BY <2>1, <2>2
<1>6. disturbed' \in BOOLEAN /\ kbd_addr' \in {0, a} /\ addr' = known
  BY DEF Getc, UsbTypes
<1>7. live' => addr' # 0
  <2>1. CASE kbd_addr = 0
    <3>1. \A x \in Addresses : x # 0
      BY UsbAssumption
    <3>2. CASE live
      BY <2>1, <3>2 DEF Getc, UsbCheckForChange, DeskInv
    <3>3. CASE ~live
      BY <2>1, <3>1, <3>3 DEF Getc, UsbCheckForChange
    <3>. QED BY <3>2, <3>3
  <2>2. CASE kbd_addr # 0
    BY <2>2 DEF Getc, DeskInv
  <2>. QED BY <2>1, <2>2
<1>8. ~library => addr' = 0 /\ report' = NoKeys
  <2>. SUFFICES ASSUME ~library PROVE known = 0 /\ listed = NoKeys
    BY DEF Getc
  <2>1. CASE kbd_addr = 0
    BY <2>1 DEF Getc, UsbCheckForChange, DeskInv
  <2>2. CASE kbd_addr # 0
    BY <2>2 DEF Getc, DeskInv
  <2>. QED BY <2>1, <2>2
<1>9. report' \in [1 .. Slots -> Entries]
  <2>1. Report(held) \in [1 .. Slots -> Entries]
    BY ReportOfHeld DEF UsbTypes
  <2>. QED BY <1>2, <2>1 DEF Getc
<1>10. keys' \in [1 .. Slots -> Entries]
  BY <1>2, <1>3 DEF Getc, UsbTypes
<1>11. got' \in Seq(Keys) /\ (phase = "script" => got' = got)
  <2>1. got \in Seq(Keys)
    BY DEF UsbTypes
  <2>2. got' = got \/ (phase # "script" /\ Scan(read).result # 0 /\ got' = Append(got, Scan(read).result))
    BY DEF Getc
  <2>. QED BY <1>3, <2>1, <2>2, AppendProperties
<1>. QED BY <1>4, <1>5, <1>6, <1>7, <1>8, <1>9, <1>10, <1>11

\* Seen from the mailboxes, every step is one of theirs or none at all.
LEMMA MailOnHost ==
  ASSUME [Next]_usbVars
  PROVE  [MailNext]_mailVars
<1>1. CASE Desk
  BY <1>1 DEF Desk, Plug, Unplug, Press, Release
<1>2. CASE HostSteps
  BY <1>2 DEF HostSteps, UsbInitialise, HostDelay, HostReady, PoweredOff
<1>3. CASE rpi_usb_host_init
  BY <1>3 DEF rpi_usb_host_init, MailNext
<1>4. CASE usbkbd_init \/ ScriptEnds \/ KeyboardInterrupt \/ usbkbd_getc
  BY <1>4 DEF usbkbd_init, ScriptEnds, KeyboardInterrupt, usbkbd_getc
<1>5. CASE UsbModeNone \/ SoftReboot
  BY <1>5 DEF UsbModeNone, SoftReboot, rpi_usb_host_deinit, MailNext
<1>6. CASE MailDriver \/ Gpu \/ GpuTalks
  BY <1>6 DEF MailDriver, Gpu, GpuTalks, Mail, MailNext
<1>7. CASE UNCHANGED usbVars
  BY <1>7 DEF usbVars
<1>. QED
  BY <1>1, <1>2, <1>3, <1>4, <1>5, <1>6, <1>7 DEF Next, MainSteps, ScriptSteps

\* Every step keeps the types.
LEMMA TypesStep ==
  ASSUME UsbTypes, DeskInv, PowerInv, MailInv, [Next]_usbVars
  PROVE  UsbTypes'
<1>. USE DEF UsbTypes
<1>1. CASE Plug
  BY <1>1 DEF Plug, hostVars, kbdVars, libVars, history, mailVars
<1>2. CASE Unplug
  <2>1. << >> \in Seq(Keys) /\ Len(<< >>) <= Slots
    BY UsbAssumption
  <2>. QED BY <1>2, <2>1 DEF Unplug, hostVars, kbdVars, mailVars
<1>3. ASSUME NEW k \in Keys, Press(k) PROVE UsbTypes'
  <2>1. Append(held, k) \in Seq(Keys) /\ Len(Append(held, k)) = Len(held) + 1 /\ Append(pressed, k) \in Seq(Keys)
    BY AppendProperties
  <2>2. Len(held) < Slots /\ Len(held) \in Nat /\ Slots \in Nat
    BY <1>3, UsbAssumption, LenProperties DEF Press
  <2>3. held' \in Seq(Keys) /\ Len(held') <= Slots /\ pressed' \in Seq(Keys)
    BY <1>3, <2>1, <2>2 DEF Press
  <2>. QED BY <1>3, <2>3 DEF Press, hostVars, kbdVars, libVars, mailVars
<1>4. ASSUME NEW k \in Keys, Release(k) PROVE UsbTypes'
  <2>1. PICK i \in DOMAIN held : held' = RemoveAt(held, i)
    BY <1>4 DEF Release
  <2>2. held' \in Seq(Keys) /\ Len(held') = Len(held) - 1 /\ Len(held) \in Nat /\ Slots \in Nat
    BY <2>1, Removed, UsbAssumption, LenProperties
  <2>. QED BY <1>4, <2>2 DEF Release, hostVars, kbdVars, libVars, mailVars
<1>5. CASE UsbInitialise
  <2>1. NoKeys \in [1 .. Slots -> Entries]
    BY DEF NoKeys, Entries
  <2>. QED BY <1>5, <2>1 DEF UsbInitialise, kbdVars, deskVars, history, mailVars
<1>6. CASE HostDelay
  <2>1. NoKeys \in [1 .. Slots -> Entries]
    BY DEF NoKeys, Entries
  <2>2. addr' \in Addresses \cup {0} /\ report' \in [1 .. Slots -> Entries] /\ live' \in BOOLEAN
    BY <1>6, <2>1 DEF HostDelay, Check, UsbCheckForChange
  <2>. QED BY <1>6, <2>2 DEF HostDelay, kbdVars, deskVars, history, mailVars
<1>7. CASE HostReady
  BY <1>7 DEF HostReady, kbdVars, libVars, deskVars, history, mailVars
<1>8. CASE PoweredOff
  BY <1>8 DEF PoweredOff, kbdVars, libVars, deskVars, history, mailVars
<1>9. CASE rpi_usb_host_init
  BY <1>9 DEF rpi_usb_host_init, power_usb, kbdVars, libVars, deskVars, history
<1>10. CASE usbkbd_init
  <2>1. NoKeys \in [1 .. Slots -> Entries] /\ << >> \in Seq(Keys)
    BY DEF NoKeys, Entries
  <2>2. PICK n \in 0 .. Slots :
          /\ \A i \in 1 .. Slots : report[i] # 0 <=> i <= n
          /\ pressed' = IF report = Report(held) THEN held ELSE SubSeq(report, 1, n) \o held
    BY <1>10 DEF usbkbd_init
  <2>3. SubSeq(report, 1, n) \in Seq(Keys)
    <3>1. n \in Int /\ \A i \in 1 .. n : i \in 1 .. Slots /\ i <= n
      BY UsbAssumption
    <3>2. \A i \in 1 .. n : report[i] \in Keys
      BY <2>2, <3>1 DEF Entries
    <3>. QED BY <3>1, <3>2, SubSeqProperties
  <2>4. pressed' \in Seq(Keys)
    BY <2>2, <2>3, ConcatProperties
  <2>. QED BY <1>10, <2>1, <2>4 DEF usbkbd_init, libVars, deskVars, mailVars
<1>11. CASE UsbModeNone
  <2>1. NoKeys \in [1 .. Slots -> Entries]
    BY DEF NoKeys, Entries
  <2>. QED BY <1>11, <2>1 DEF UsbModeNone, rpi_usb_host_deinit, Deinitialise, power_usb, kbdVars, deskVars
<1>12. CASE ScriptEnds
  BY <1>12 DEF ScriptEnds, kbdVars, libVars, deskVars, history, mailVars
<1>13. CASE SoftReboot
  <2>1. NoKeys \in [1 .. Slots -> Entries] /\ << >> \in Seq(Keys)
    BY DEF NoKeys, Entries
  <2>. QED BY <1>13, <2>1 DEF SoftReboot, rpi_usb_host_deinit, Deinitialise, power_usb, kbdVars, libVars, deskVars, mailVars
<1>14. CASE KeyboardInterrupt
  BY <1>14 DEF KeyboardInterrupt, kbdVars, libVars, deskVars, history, mailVars
<1>15. CASE usbkbd_getc
  <2>1. PICK known \in {0} \cup Addresses, listed \in {report, NoKeys}, read \in {report, NoKeys},
             polled \in BOOLEAN : \E a : Getc(known, listed, read, polled, a)
    BY <1>15, GetcChoices
  <2>2. UNCHANGED <<hostVars, library, deskVars, pressed, mailVars>>
    BY <1>15, GetcChoices
  <2>3. PICK a : Getc(known, listed, read, polled, a)
    BY <2>1
  <2>. QED BY <2>2, <2>3, GetcTypes DEF hostVars, deskVars, mailVars
<1>16. CASE MailDriver \/ Gpu \/ GpuTalks
  <2>1. UNCHANGED <<hostVars, kbdVars, libVars, deskVars, history>>
    BY <1>16 DEF MailDriver, Gpu, GpuTalks
  <2>2. power' \in BOOLEAN
    <3>1. CASE GpuAnswer
      <4>1. mail1 # << >> /\ power' \in {call.message, power}
        BY <3>1 DEF GpuAnswer
      <4>2. call.message \in BOOLEAN
        BY <4>1 DEF MailInv, AnswersInv, PowerInv
      <4>. QED BY <4>1, <4>2
    <3>2. CASE GpuNoise \/ Mail
      BY <3>2 DEF GpuNoise, Mail, MailSteps, PowerDone, mailbox_write, mailbox_read, PropertyRead, ClockRead, FramebufRead
    <3>. QED BY <1>16, <3>1, <3>2 DEF MailDriver, Gpu, GpuTalks
  <2>. QED BY <2>1, <2>2 DEF hostVars, kbdVars, libVars, deskVars, history
<1>17. CASE UNCHANGED usbVars
  BY <1>17 DEF usbVars, hostVars, kbdVars, libVars, deskVars, history, mailVars
<1>. QED
  BY <1>1, <1>2, <1>3, <1>4, <1>5, <1>6, <1>7, <1>8, <1>9, <1>10, <1>11, <1>12, <1>13, <1>14, <1>15, <1>16, <1>17
  DEF Next, Desk, HostSteps, MainSteps, ScriptSteps

\* Every step keeps what the library knows of the desk.
LEMMA DeskStep ==
  ASSUME UsbTypes, DeskInv, PowerInv, [Next]_usbVars
  PROVE  DeskInv'
<1>. USE DEF DeskInv
<1>1. CASE Plug
  BY <1>1 DEF Plug, libVars
<1>2. CASE Unplug
  BY <1>2 DEF Unplug
<1>3. CASE \E k \in Keys : Press(k)
  BY <1>3 DEF Press, libVars
<1>4. CASE \E k \in Keys : Release(k)
  <2>1. plugged /\ UNCHANGED <<plugged, libVars>>
    BY <1>4 DEF Release
  <2>. QED BY <2>1 DEF libVars
<1>5. CASE UsbInitialise
  BY <1>5 DEF UsbInitialise, deskVars
<1>6. CASE HostDelay
  <2>1. \A x \in Addresses : x # 0
    BY UsbAssumption
  <2>2. UNCHANGED <<library, plugged, held>> /\ UsbCheckForChange(addr', report') /\ live' = (library /\ plugged)
    BY <1>6 DEF HostDelay, Check, deskVars
  <2>3. CASE ~library \/ live
    BY <2>2, <2>3 DEF UsbCheckForChange, UsbTypes
  <2>4. CASE library /\ ~live
    BY <2>1, <2>2, <2>4 DEF UsbCheckForChange, UsbTypes
  <2>. QED BY <2>3, <2>4
<1>7. CASE HostReady \/ PoweredOff
  BY <1>7 DEF HostReady, PoweredOff, libVars, deskVars
<1>8. CASE rpi_usb_host_init \/ KeyboardInterrupt
  <2>1. UNCHANGED <<libVars, deskVars>>
    BY <1>8 DEF rpi_usb_host_init, KeyboardInterrupt
  <2>. QED BY <2>1 DEF libVars, deskVars
<1>9. CASE usbkbd_init \/ ScriptEnds
  BY <1>9 DEF usbkbd_init, ScriptEnds, libVars, deskVars
<1>10. CASE UsbModeNone \/ SoftReboot
  <2>1. UNCHANGED deskVars /\ (Deinitialise \/ UNCHANGED libVars)
    BY <1>10 DEF UsbModeNone, SoftReboot, rpi_usb_host_deinit
  <2>. QED BY <2>1 DEF Deinitialise, libVars, deskVars
<1>11. CASE usbkbd_getc
  <2>1. PICK known \in {0} \cup Addresses, listed \in {report, NoKeys}, read \in {report, NoKeys},
             polled \in BOOLEAN : \E a : Getc(known, listed, read, polled, a)
    BY <1>11, GetcChoices
  <2>2. UNCHANGED <<library, plugged, held>>
    BY <1>11 DEF usbkbd_getc, deskVars
  <2>3. PICK a : Getc(known, listed, read, polled, a)
    BY <2>1
  <2>4. /\ ~plugged => ~live'
        /\ live' => library /\ addr' # 0
        /\ ~library => addr' = 0 /\ report' = NoKeys
    BY <2>3, GetcTypes
  <2>. QED BY <2>2, <2>4
<1>12. CASE MailDriver \/ Gpu \/ GpuTalks
  BY <1>12 DEF MailDriver, Gpu, GpuTalks, libVars, deskVars
<1>13. CASE UNCHANGED usbVars
  BY <1>13 DEF usbVars, libVars, deskVars
<1>. QED
  BY <1>1, <1>2, <1>3, <1>4, <1>5, <1>6, <1>7, <1>8, <1>9, <1>10, <1>11, <1>12, <1>13
  DEF Next, Desk, HostSteps, MainSteps, ScriptSteps

\* Every step keeps the power on while the library runs.
LEMMA PowerStep ==
  ASSUME UsbTypes, PowerInv, MailInv, [Next]_usbVars
  PROVE  PowerInv'
<1>. USE DEF PowerInv
<1>1. CASE Desk
  BY <1>1 DEF Desk, Plug, Unplug, Press, Release, hostVars, libVars, mailVars
<1>2. CASE UsbInitialise
  BY <1>2 DEF UsbInitialise, MailIdle, mailVars
<1>3. CASE HostDelay \/ HostReady
  BY <1>3 DEF HostDelay, HostReady, libVars, mailVars
<1>4. CASE PoweredOff
  BY <1>4 DEF PoweredOff, MailIdle, libVars, mailVars
<1>5. CASE rpi_usb_host_init
  BY <1>5 DEF rpi_usb_host_init, power_usb, Request, Begin, libVars
<1>6. CASE usbkbd_init \/ ScriptEnds \/ KeyboardInterrupt
  BY <1>6 DEF usbkbd_init, ScriptEnds, KeyboardInterrupt, libVars, mailVars
<1>7. CASE rpi_usb_host_deinit
  BY <1>7 DEF rpi_usb_host_deinit, Deinitialise, power_usb, Request, Begin
<1>8. CASE SoftReboot /\ ~rpi_usb_host_deinit
  BY <1>8 DEF SoftReboot, libVars, mailVars
<1>9. CASE usbkbd_getc
  BY <1>9 DEF usbkbd_getc, hostVars, mailVars
<1>10. CASE MailDriver \/ Gpu \/ GpuTalks
  <2>1. UNCHANGED <<host, usb_initialised, library>>
    BY <1>10 DEF MailDriver, Gpu, GpuTalks, hostVars, libVars
  <2>2. CASE mailbox_write \/ mailbox_read \/ GpuAnswer
    <3>1. /\ call.at # "none" /\ call \in MailCalls
          /\ call'.who = call.who /\ call'.message = call.message
      <4>1. call.at # "none"
        BY <2>2 DEF mailbox_write, mailbox_read, GpuAnswer, MailInv, AnswersInv
      <4>2. call \in MailCalls
        BY <4>1 DEF MailInv, MailTypeInv
      <4>3. CASE mailbox_write
        BY <4>1, <4>2, <4>3, CallAt DEF mailbox_write
      <4>4. CASE mailbox_read
        BY <4>1, <4>2, <4>4, CallAt DEF mailbox_read
      <4>5. CASE GpuAnswer
        <5>1. PICK r \in {"ok", "error"} : call' = [call EXCEPT !.reply = r]
          BY <4>5 DEF GpuAnswer
        <5>2. r \in {"", "ok", "error"}
          OBVIOUS
        <5>. QED BY <4>1, <4>2, <5>1, <5>2, CallReply
      <4>. QED BY <2>2, <4>1, <4>2, <4>3, <4>4, <4>5
    <3>2. host \in {"power_on", "power_off"} /\ ~library
      BY <3>1
    <3>. QED BY <2>1, <3>1, <3>2
  <2>3. CASE PropertyRead \/ ClockRead \/ PowerDone
    <3>1. call'.at = "none" /\ power' = power
      BY <2>3 DEF PropertyRead, ClockRead, PowerDone, NoCall
    <3>. QED BY <2>1, <3>1
  <2>4. CASE FramebufRead
    BY <2>4 DEF FramebufRead
  <2>5. CASE GpuNoise
    BY <2>1, <2>5 DEF GpuNoise
  <2>. QED BY <1>10, <2>2, <2>3, <2>4, <2>5 DEF MailDriver, Gpu, GpuTalks, Mail, MailSteps
<1>11. CASE UNCHANGED usbVars
  BY <1>11 DEF usbVars, hostVars, libVars, mailVars
<1>. QED
  BY <1>1, <1>2, <1>3, <1>4, <1>5, <1>6, <1>7, <1>8, <1>9, <1>10, <1>11
  DEF Next, HostSteps, MainSteps, ScriptSteps, UsbModeNone

\* Every step keeps what holds while the REPL reads.
LEMMA ReplStep ==
  ASSUME UsbTypes, ReplInv, [Next]_usbVars
  PROVE  ReplInv'
<1>. USE DEF ReplInv, Reading
<1>1. CASE Desk
  BY <1>1 DEF Desk, Plug, Unplug, Press, Release, hostVars, kbdVars, libVars, history
<1>2. CASE HostSteps
  BY <1>2 DEF HostSteps, UsbInitialise, HostDelay, HostReady, PoweredOff, kbdVars, libVars, history
<1>3. CASE rpi_usb_host_init \/ KeyboardInterrupt
  BY <1>3 DEF rpi_usb_host_init, KeyboardInterrupt, kbdVars, libVars, history, UsbTypes
<1>4. CASE usbkbd_init
  BY <1>4 DEF usbkbd_init, HostIdle
<1>5. CASE UsbModeNone \/ SoftReboot
  BY <1>5 DEF UsbModeNone, SoftReboot
<1>6. CASE ScriptEnds
  BY <1>6 DEF ScriptEnds, history
<1>7. CASE usbkbd_getc
  <2>1. PICK known \in {0} \cup Addresses, listed \in {report, NoKeys}, read \in {report, NoKeys},
             polled \in BOOLEAN : \E a : Getc(known, listed, read, polled, a)
    BY <1>7, GetcChoices
  <2>2. UNCHANGED hostVars /\ phase \in {"script", "repl"}
    BY <1>7 DEF usbkbd_getc
  <2>3. PICK a : Getc(known, listed, read, polled, a)
    BY <2>1
  <2>4. phase = "script" => got' = got
    BY <2>3 DEF Getc
  <2>5. ASSUME ~disturbed' PROVE ~disturbed /\ (kbd_addr' # 0 => kbd_addr' = addr')
    BY <2>3, <2>5 DEF Getc, UsbTypes
  <2>. QED BY <2>2, <2>4, <2>5 DEF hostVars
<1>8. CASE MailDriver \/ Gpu \/ GpuTalks
  BY <1>8 DEF MailDriver, Gpu, GpuTalks, hostVars, kbdVars, libVars, history
<1>9. CASE UNCHANGED usbVars
  BY <1>9 DEF usbVars, hostVars, kbdVars, libVars, history
<1>. QED
  BY <1>1, <1>2, <1>3, <1>4, <1>5, <1>6, <1>7, <1>8, <1>9
  DEF Next, MainSteps, ScriptSteps

-----------------------------------------------------------------------------
(***************************************************************************)
(* Where in the order of the presses the keyboard code is.  The first n    *)
(* presses are those that can be in the library's report, and the first m  *)
(* those that the keyboard code has read; the characters come from these   *)
(* (g), the keys of the report from the first n (p), and the keys that are *)
(* down from any (h).  A key that was pressed longer ago than the report   *)
(* (or the reading) and that is still down (or reported) is in the report  *)
(* (or in keys) at its place or at a later one, since keys only move to    *)
(* the front: usbkbd_getc, which replaces keys from the front, never takes *)
(* it for a new one.                                                       *)
(***************************************************************************)
GotFrom(m, g) ==
  /\ g \in [DOMAIN got -> 1 .. m]
  /\ \A i \in DOMAIN got : got[i] = pressed[g[i]] /\ \A j \in 1 .. i - 1 : g[j] < g[i]

HeldFrom(n, h) ==
  /\ h \in [DOMAIN held -> 1 .. Len(pressed)]
  /\ \A i \in DOMAIN held : held[i] = pressed[h[i]]
  /\ ~live => \A i \in DOMAIN held : h[i] > n
  /\ \A i \in DOMAIN held : h[i] <= n => \E j \in i .. Slots : report[j] = held[i]

ReportFrom(n, m, p) ==
  /\ p \in [1 .. Slots -> 0 .. n]
  /\ \A i \in 1 .. Slots : report[i] # 0 => p[i] # 0 /\ report[i] = pressed[p[i]]
  /\ \A i \in 1 .. Slots : report[i] # 0 /\ p[i] <= m => \E j \in i .. Slots : keys[j] = report[i]

Order(n, m, g, h) ==
  /\ n \in 0 .. Len(pressed) /\ m \in 0 .. n
  /\ GotFrom(m, g) /\ HeldFrom(n, h)
  /\ live \/ kbd_addr # 0 => \E p : ReportFrom(n, m, p)

OrderInv == Reading => \E n, m, g, h : Order(n, m, g, h)

\* A key goes down: it is the last one of all.
LEMMA PressOrder ==
  ASSUME UsbTypes, Reading, NEW n, NEW m, NEW g, NEW h, Order(n, m, g, h), NEW k \in Keys, Press(k)
  PROVE  \E f : Order(n, m, g, f)'
<1>. DEFINE L == Len(pressed) + 1
<1>f. PICK f : f = [i \in DOMAIN held' |-> IF i \in DOMAIN held THEN h[i] ELSE L]
  OBVIOUS
<1>1. /\ held \in Seq(Keys) /\ pressed \in Seq(Keys)
      /\ held' = Append(held, k) /\ pressed' = Append(pressed, k)
      /\ UNCHANGED <<got, report, keys, live, kbd_addr>>
  BY DEF UsbTypes, Reading, Press, kbdVars, libVars
<1>2. /\ DOMAIN held' = 1 .. Len(held) + 1 /\ DOMAIN held = 1 .. Len(held) /\ Len(held) \in Nat
      /\ \A i \in DOMAIN held : held'[i] = held[i]
      /\ held'[Len(held) + 1] = k
  BY <1>1, AppendProperties, LenProperties
<1>3. /\ Len(pressed') = L /\ Len(pressed) \in Nat
      /\ \A i \in 1 .. Len(pressed) : pressed'[i] = pressed[i]
      /\ pressed'[L] = k
  BY <1>1, AppendProperties, LenProperties
<1>4. n \in 0 .. Len(pressed) /\ m \in 0 .. n /\ n \in 0 .. Len(pressed')
  BY <1>3 DEF Order
<1>5. GotFrom(m, g)'
  <2>1. \A i \in DOMAIN got : g[i] \in 1 .. Len(pressed)
    BY <1>3, <1>4 DEF Order, GotFrom
  <2>2. \A i \in DOMAIN got : pressed'[g[i]] = pressed[g[i]]
    BY <1>3, <2>1
  <2>. QED BY <1>1, <2>2 DEF Order, GotFrom
<1>6. HeldFrom(n, f)'
  <2>1. ASSUME NEW i \in DOMAIN held'
        PROVE  /\ f[i] \in 1 .. Len(pressed')
               /\ held'[i] = pressed'[f[i]]
               /\ ~live' => f[i] > n
               /\ f[i] <= n => \E j \in i .. Slots : report'[j] = held'[i]
    <3>1. CASE i \in DOMAIN held
      <4>1. f[i] = h[i] /\ h[i] \in 1 .. Len(pressed)
        BY <1>f, <3>1 DEF Order, HeldFrom
      <4>2. held'[i] = held[i] /\ pressed'[h[i]] = pressed[h[i]]
        BY <1>2, <1>3, <3>1, <4>1
      <4>3. f[i] \in 1 .. Len(pressed')
        BY <1>3, <4>1
      <4>. QED BY <1>1, <3>1, <4>1, <4>2, <4>3 DEF Order, HeldFrom
    <3>2. CASE i \notin DOMAIN held
      <4>1. i = Len(held) + 1 /\ f[i] = L
        BY <1>f, <1>2, <3>2
      <4>. QED BY <1>2, <1>3, <1>4, <4>1
    <3>. QED BY <3>1, <3>2
  <2>2. f \in [DOMAIN held' -> 1 .. Len(pressed')]
    BY <1>f, <2>1
  <2>. QED BY <2>1, <2>2 DEF HeldFrom
<1>7. ASSUME NEW p, ReportFrom(n, m, p)
      PROVE  ReportFrom(n, m, p)'
  <2>1. \A i \in 1 .. Slots : p[i] # 0 => p[i] \in 1 .. Len(pressed)
    BY <1>3, <1>4, <1>7 DEF ReportFrom
  <2>2. \A i \in 1 .. Slots : p[i] # 0 => pressed'[p[i]] = pressed[p[i]]
    BY <1>3, <2>1
  <2>. QED BY <1>1, <1>7, <2>2 DEF ReportFrom
<1>8. live' \/ kbd_addr' # 0 => \E p : ReportFrom(n, m, p)'
  BY <1>1, <1>7 DEF Order
<1>. QED BY <1>4, <1>5, <1>6, <1>8 DEF Order

\* A key comes up: those behind it move to the front.
LEMMA ReleaseOrder ==
  ASSUME UsbTypes, NEW n, NEW m, NEW g, NEW h, Order(n, m, g, h), NEW k \in Keys, Release(k)
  PROVE  \E f : Order(n, m, g, f)'
<1>1. PICK r \in DOMAIN held : held' = RemoveAt(held, r)
  BY DEF Release
<1>. DEFINE At(i) == IF i < r THEN i ELSE i + 1
<1>f. PICK f : f = [i \in DOMAIN held' |-> h[At(i)]]
  OBVIOUS
<1>2. ASSUME NEW i \in DOMAIN held'
      PROVE  At(i) \in DOMAIN held /\ held'[i] = held[At(i)]
  <2>1. PICK x \in DOMAIN held : x \in {i, i + 1} /\ held'[i] = held[x] /\ (x = i <=> i < r)
    BY <1>1, Removed DEF UsbTypes
  <2>2. x = At(i)
    BY <2>1
  <2>. QED BY <2>1, <2>2
<1>3. UNCHANGED <<pressed, got, report, keys, live, kbd_addr>>
  BY DEF Release, kbdVars, libVars
<1>4. \A i \in DOMAIN held' : i \in Nat /\ \A j \in At(i) .. Slots : j \in i .. Slots
  <2>1. held' \in Seq(Keys)
    BY <1>1, Removed DEF UsbTypes
  <2>2. DOMAIN held' = 1 .. Len(held') /\ Len(held') \in Nat /\ Slots \in Nat
    BY <2>1, LenProperties, UsbAssumption
  <2>3. DOMAIN held = 1 .. Len(held) /\ Len(held) \in Nat
    BY LenProperties DEF UsbTypes
  <2>. QED BY <2>2, <2>3
<1>5. HeldFrom(n, f)'
  <2>1. ASSUME NEW i \in DOMAIN held'
        PROVE  /\ f[i] \in 1 .. Len(pressed)
               /\ held'[i] = pressed[f[i]]
               /\ ~live => f[i] > n
               /\ f[i] <= n => \E j \in i .. Slots : report[j] = held'[i]
    <3>1. f[i] = h[At(i)]
      BY <1>f
    <3>2. At(i) \in DOMAIN held /\ held'[i] = held[At(i)]
      BY <1>2
    <3>3. \A j \in At(i) .. Slots : j \in i .. Slots
      BY <1>4
    <3>. HIDE DEF At
    <3>. QED BY <3>1, <3>2, <3>3 DEF Order, HeldFrom
  <2>2. f \in [DOMAIN held' -> 1 .. Len(pressed)]
    BY <1>f, <2>1
  <2>. QED BY <1>3, <2>1, <2>2 DEF HeldFrom
<1>6. GotFrom(m, g)'
  BY <1>3 DEF Order, GotFrom
<1>7. \A p : ReportFrom(n, m, p) => ReportFrom(n, m, p)'
  BY <1>3 DEF ReportFrom
<1>8. live' \/ kbd_addr' # 0 => \E p : ReportFrom(n, m, p)'
  BY <1>3, <1>7 DEF Order
<1>9. n \in 0 .. Len(pressed') /\ m \in 0 .. n
  BY <1>3 DEF Order
<1>. QED BY <1>5, <1>6, <1>8, <1>9 DEF Order

\* The keyboard is pulled out: no key is down, and the report stays as it is.
LEMMA UnplugOrder ==
  ASSUME NEW n, NEW m, NEW g, NEW h, Order(n, m, g, h), Unplug
  PROVE  \E f : Order(n, m, g, f)'
<1>1. /\ UNCHANGED <<pressed, got, report, keys, kbd_addr>> /\ held' = << >> /\ live' = FALSE
  BY DEF Unplug, kbdVars
<1>f. PICK f : f = [i \in {} |-> 1]
  OBVIOUS
<1>2. HeldFrom(n, f)'
  <2>1. DOMAIN held' = {}
    BY <1>1
  <2>2. f \in [{} -> 1 .. Len(pressed')]
    BY <1>f
  <2>. QED BY <2>1, <2>2 DEF HeldFrom
<1>3. GotFrom(m, g)'
  BY <1>1 DEF Order, GotFrom
<1>4. \A p : ReportFrom(n, m, p) => ReportFrom(n, m, p)'
  BY <1>1 DEF ReportFrom
<1>5. live' \/ kbd_addr' # 0 => \E p : ReportFrom(n, m, p)'
  BY <1>1, <1>4 DEF Order
<1>6. n \in 0 .. Len(pressed') /\ m \in 0 .. n
  BY <1>1 DEF Order
<1>. QED BY <1>2, <1>3, <1>5, <1>6 DEF Order

\* The REPL begins, with the keys that are reported or down for the first presses.
LEMMA InitOrder ==
  ASSUME UsbTypes, usbkbd_init
  PROVE  \E n, m, g, h : Order(n, m, g, h)'
<1>1. PICK k \in 0 .. Slots :
        /\ \A i \in 1 .. Slots : report[i] # 0 <=> i <= k
        /\ pressed' = IF report = Report(held) THEN held ELSE SubSeq(report, 1, k) \o held
  BY DEF usbkbd_init
<1>2. /\ UNCHANGED <<report, live, held>> /\ kbd_addr' = 0 /\ got' = << >>
  BY DEF usbkbd_init, libVars, deskVars
<1>3. /\ Slots \in Nat /\ held \in Seq(Keys) /\ Len(held) \in Nat /\ Len(held) <= Slots
      /\ DOMAIN held = 1 .. Len(held) /\ report \in [1 .. Slots -> Entries]
  BY UsbAssumption, LenProperties DEF UsbTypes
\* Where the keys that are down begin in the presses.
<1>4. \E o \in 0 .. k :
        /\ Len(pressed') = o + Len(held) /\ k <= Len(pressed')
        /\ \A i \in 1 .. Len(held) : pressed'[o + i] = held[i]
        /\ \A i \in 1 .. k : pressed'[i] = report[i]
        /\ \A i \in 1 .. Len(held) : o + i <= k => report[i] = held[i]
  <2>1. CASE report = Report(held)
    <3>1. /\ \A i \in 1 .. Len(held) : i \in 1 .. Slots /\ report[i] = held[i]
          /\ \A i \in 1 .. Slots : report[i] # 0 <=> i \in 1 .. Len(held)
      BY <1>3, <2>1, ReportOfHeld
    <3>2. k = Len(held)
      <4>1. \A i \in 1 .. Slots : i <= k <=> i <= Len(held)
        BY <1>1, <1>3, <3>1
      <4>2. ~(k < Len(held))
        <5>1. k < Len(held) => k + 1 \in 1 .. Slots /\ k + 1 <= Len(held) /\ ~(k + 1 <= k)
          BY <1>3
        <5>. QED BY <4>1, <5>1
      <4>3. ~(Len(held) < k)
        <5>1. Len(held) < k => k \in 1 .. Slots /\ k <= k /\ ~(k <= Len(held))
          BY <1>3
        <5>. QED BY <4>1, <5>1
      <4>4. k \in Nat /\ Len(held) \in Nat
        BY <1>3
      <4>. QED BY <4>2, <4>3, <4>4
    <3>3. pressed' = held
      BY <1>1, <2>1
    <3>4. /\ 0 \in 0 .. k /\ Len(pressed') = 0 + Len(held) /\ k <= Len(pressed')
          /\ \A i \in 1 .. Len(held) : pressed'[0 + i] = held[i]
          /\ \A i \in 1 .. k : pressed'[i] = report[i]
          /\ \A i \in 1 .. Len(held) : 0 + i <= k => report[i] = held[i]
      BY <1>3, <3>1, <3>2, <3>3
    <3>. QED BY <3>4
  <2>2. CASE report # Report(held)
    <3>. DEFINE b == SubSeq(report, 1, k)
    <3>1. k \in Int /\ \A i \in 1 .. k : i \in 1 .. Slots /\ i <= k
      BY <1>3
    <3>2. \A i \in 1 .. k : report[i] \in Keys
      BY <1>1, <1>3, <3>1 DEF Entries
    <3>3. b \in Seq(Keys) /\ Len(b) = k /\ \A i \in 1 .. k : b[i] = report[i]
      <4>1. /\ b \in Seq(Keys) /\ Len(b) = IF 1 <= k THEN k - 1 + 1 ELSE 0
            /\ \A i \in 1 .. k - 1 + 1 : b[i] = report[1 + i - 1]
        BY <3>1, <3>2, SubSeqProperties
      <4>2. k - 1 + 1 = k /\ \A i \in 1 .. k : 1 + i - 1 = i
        BY <3>1
      <4>. HIDE DEF b
      <4>. QED BY <1>3, <4>1, <4>2
    <3>4. pressed' = b \o held
      BY <1>1, <2>2
    <3>. HIDE DEF b
    <3>5. /\ Len(b \o held) = Len(b) + Len(held)
          /\ \A i \in 1 .. Len(b) + Len(held) : (b \o held)[i] = IF i <= Len(b) THEN b[i] ELSE held[i - Len(b)]
      BY <1>3, <3>3, ConcatProperties
    <3>6. \A i \in 1 .. Len(held) : /\ k + i \in 1 .. k + Len(held) /\ ~(k + i <= k) /\ (k + i) - k = i
      BY <1>3
    <3>7. \A i \in 1 .. k : i \in 1 .. k + Len(held) /\ i <= k
      BY <1>3
    <3>8. \A i \in 1 .. Len(held) : pressed'[k + i] = held[i]
      BY <3>3, <3>4, <3>5, <3>6
    <3>9. \A i \in 1 .. k : pressed'[i] = report[i]
      BY <3>3, <3>4, <3>5, <3>7
    <3>10. k \in 0 .. k /\ Len(pressed') = k + Len(held) /\ k <= Len(pressed')
      BY <1>3, <3>3, <3>4, <3>5
    <3>. QED BY <3>6, <3>8, <3>9, <3>10
  <2>. QED BY <2>1, <2>2
<1>5. PICK o \in 0 .. k :
        /\ Len(pressed') = o + Len(held) /\ k <= Len(pressed')
        /\ \A i \in 1 .. Len(held) : pressed'[o + i] = held[i]
        /\ \A i \in 1 .. k : pressed'[i] = report[i]
        /\ \A i \in 1 .. Len(held) : o + i <= k => report[i] = held[i]
  BY <1>4
<1>6. PICK n : n = IF live THEN k ELSE 0
  OBVIOUS
<1>g. PICK g : g = [i \in {} |-> 1]
  OBVIOUS
<1>h. PICK h : h = [i \in 1 .. Len(held) |-> o + i]
  OBVIOUS
<1>7. n \in 0 .. Len(pressed') /\ 0 \in 0 .. n
  BY <1>3, <1>5, <1>6
<1>8. GotFrom(0, g)'
  <2>1. DOMAIN got' = {} /\ g \in [{} -> 1 .. 0]
    BY <1>2, <1>g
  <2>. QED BY <2>1 DEF GotFrom
<1>9. HeldFrom(n, h)'
  <2>1. ASSUME NEW i \in 1 .. Len(held)
        PROVE  /\ h[i] \in 1 .. Len(pressed') /\ held[i] = pressed'[h[i]]
               /\ ~live => h[i] > n
               /\ h[i] <= n => i \in i .. Slots /\ report[i] = held[i]
    <3>1. h[i] = o + i /\ i \in Nat /\ i # 0
      BY <1>3, <1>h
    <3>2. h[i] \in 1 .. Len(pressed') /\ held[i] = pressed'[h[i]]
      BY <1>3, <1>5, <3>1
    <3>3. ~live => h[i] > n
      BY <1>3, <1>6, <3>1
    <3>4. ASSUME h[i] <= n PROVE i \in i .. Slots /\ report[i] = held[i]
      BY <1>3, <1>5, <1>6, <3>1, <3>3, <3>4
    <3>. QED BY <3>2, <3>3, <3>4
  <2>2. h \in [1 .. Len(held) -> 1 .. Len(pressed')]
    BY <1>h, <2>1
  <2>. QED BY <1>2, <1>3, <2>1, <2>2 DEF HeldFrom
<1>10. ASSUME live PROVE \E p : ReportFrom(n, 0, p)'
  <2>1. PICK p : p = [i \in 1 .. Slots |-> IF i <= k THEN i ELSE 0]
    OBVIOUS
  <2>2. n = k
    BY <1>6, <1>10
  <2>3. p \in [1 .. Slots -> 0 .. n]
    BY <1>3, <2>1, <2>2
  <2>4. ASSUME NEW i \in 1 .. Slots, report[i] # 0
        PROVE  p[i] # 0 /\ ~(p[i] <= 0) /\ report[i] = pressed'[p[i]]
    <3>1. i <= k /\ p[i] = i /\ i \in 1 .. k
      BY <1>1, <1>3, <2>1, <2>4
    <3>. QED BY <1>5, <3>1
  <2>5. ReportFrom(n, 0, p)'
    BY <1>2, <2>3, <2>4 DEF ReportFrom
  <2>. QED BY <2>5
<1>11. live' \/ kbd_addr' # 0 => \E p : ReportFrom(n, 0, p)'
  BY <1>2, <1>10
<1>12. Order(n, 0, g, h)'
  BY <1>7, <1>8, <1>9, <1>11 DEF Order
<1>. QED BY <1>12

\* A character that comes from a press after all those that have been read.
LEMMA GotOrder ==
  ASSUME UsbTypes, NEW n \in 0 .. Len(pressed), NEW m \in 0 .. n, NEW g, GotFrom(m, g),
         pressed' = pressed,
         \/ got' = got
         \/ \E y \in 1 .. n : y > m /\ got' = Append(got, pressed[y])
  PROVE  \E f : GotFrom(n, f)'
<1>1. Len(pressed) \in Nat /\ Len(got) \in Nat /\ DOMAIN got = 1 .. Len(got)
  BY LenProperties DEF UsbTypes
<1>2. CASE got' = got
  <2>1. g \in [DOMAIN got -> 1 .. n]
    BY <1>1 DEF GotFrom
  <2>2. GotFrom(n, g)'
    BY <1>2, <2>1 DEF GotFrom
  <2>. QED BY <2>2
<1>3. ASSUME NEW y \in 1 .. n, y > m, got' = Append(got, pressed[y])
      PROVE  \E f : GotFrom(n, f)'
  <2>1. PICK f : f = [i \in 1 .. Len(got) + 1 |-> IF i <= Len(got) THEN g[i] ELSE y]
    OBVIOUS
  <2>2. pressed[y] \in Keys
    BY <1>1, ElementOfSeq DEF UsbTypes
  <2>3. /\ DOMAIN got' = 1 .. Len(got) + 1
        /\ \A i \in 1 .. Len(got) : got'[i] = got[i]
        /\ got'[Len(got) + 1] = pressed[y]
    <3>1. got' \in Seq(Keys) /\ Len(got') = Len(got) + 1
      BY <1>3, <2>2, AppendProperties DEF UsbTypes
    <3>. QED BY <1>3, <2>2, <3>1, AppendProperties, LenProperties DEF UsbTypes
  <2>4. \A i \in 1 .. Len(got) : f[i] = g[i] /\ g[i] \in 1 .. m
    BY <1>1, <2>1 DEF GotFrom
  <2>5. f[Len(got) + 1] = y
    BY <1>1, <2>1
  <2>6. f \in [1 .. Len(got) + 1 -> 1 .. n]
    <3>1. \A i \in 1 .. Len(got) + 1 : (IF i <= Len(got) THEN g[i] ELSE y) \in 1 .. n
      BY <1>1, <2>4
    <3>. QED BY <2>1, <3>1
  <2>7. ASSUME NEW i \in 1 .. Len(got) + 1
        PROVE  got'[i] = pressed'[f[i]] /\ \A j \in 1 .. i - 1 : f[j] < f[i]
    <3>1. CASE i <= Len(got)
      <4>1. i \in 1 .. Len(got) /\ \A j \in 1 .. i - 1 : j \in 1 .. Len(got)
        BY <1>1, <3>1
      <4>. QED BY <1>1, <2>3, <2>4, <4>1 DEF GotFrom
    <3>2. CASE ~(i <= Len(got))
      <4>1. i = Len(got) + 1 /\ \A j \in 1 .. i - 1 : j \in 1 .. Len(got)
        BY <1>1, <3>2
      <4>2. \A j \in 1 .. Len(got) : f[j] < y
        <5>1. m \in Nat /\ y \in Nat
          BY <1>1
        <5>2. \A x \in 1 .. m : x < y
          BY <1>3, <5>1
        <5>. QED BY <2>4, <5>2
      <4>. QED BY <2>3, <2>5, <4>1, <4>2
    <3>. QED BY <3>1, <3>2
  <2>8. GotFrom(n, f)'
    BY <2>3, <2>6, <2>7 DEF GotFrom
  <2>. QED BY <2>8
<1>. QED BY <1>2, <1>3

\* The keyboard answers a poll: its report has every key that is down, at its
\* place, and those pressed before the last report are in keys.
LEMMA PolledOrder ==
  ASSUME UsbTypes, NEW n \in 0 .. Len(pressed), NEW h, HeldFrom(n, h),
         UNCHANGED <<pressed, held>>, report' = Report(held), live',
         \A i \in DOMAIN held : h[i] <= n => \E j \in i .. Slots : keys'[j] = held[i]
  PROVE  \E l : /\ l \in 0 .. Len(pressed) /\ n \in 0 .. l
                /\ HeldFrom(l, h)' /\ \E p : ReportFrom(l, n, p)'
<1>1. Len(pressed) \in Nat /\ Slots \in Nat /\ DOMAIN held = 1 .. Len(held) /\ Len(held) \in Nat
  BY UsbAssumption, LenProperties DEF UsbTypes
<1>2. PICK l : l = Len(pressed)
  OBVIOUS
<1>3. l \in 0 .. Len(pressed) /\ n \in 0 .. l
  BY <1>1, <1>2
<1>4. /\ \A i \in DOMAIN held : i \in 1 .. Slots /\ Report(held)[i] = held[i]
      /\ \A i \in 1 .. Slots : Report(held)[i] # 0 <=> i \in DOMAIN held
  BY ReportOfHeld DEF UsbTypes
<1>5. HeldFrom(l, h)'
  <2>1. \A i \in DOMAIN held : i \in i .. Slots
    BY <1>1, <1>4
  <2>. QED BY <1>4, <2>1 DEF HeldFrom
<1>6. PICK p : p = [i \in 1 .. Slots |-> IF i \in DOMAIN held THEN h[i] ELSE 0]
  OBVIOUS
<1>7. \A i \in DOMAIN held : h[i] \in 1 .. l
  BY <1>2 DEF HeldFrom
<1>8. p \in [1 .. Slots -> 0 .. l]
  <2>1. \A i \in 1 .. Slots : (IF i \in DOMAIN held THEN h[i] ELSE 0) \in 0 .. l
    BY <1>1, <1>2, <1>7
  <2>. QED BY <1>6, <2>1
<1>9. ASSUME NEW i \in 1 .. Slots, report'[i] # 0
      PROVE  /\ p[i] # 0 /\ report'[i] = pressed'[p[i]]
             /\ p[i] <= n => \E j \in i .. Slots : keys'[j] = report'[i]
  <2>1. i \in DOMAIN held /\ report'[i] = held[i] /\ p[i] = h[i]
    BY <1>4, <1>6, <1>9
  <2>2. h[i] # 0
    BY <1>1, <1>2, <1>7, <2>1
  <2>. QED BY <2>1, <2>2 DEF HeldFrom
<1>10. ReportFrom(l, n, p)'
  BY <1>8, <1>9 DEF ReportFrom
<1>. QED BY <1>3, <1>5, <1>10

\* A turn of the reading loop.
LEMMA GetcOrder ==
  ASSUME UsbTypes, DeskInv, ReplInv, Reading, NEW n, NEW m, NEW g, NEW h, Order(n, m, g, h),
         NEW known \in {0} \cup Addresses, NEW listed \in {report, NoKeys},
         NEW read \in {report, NoKeys}, NEW polled \in BOOLEAN, NEW a,
         Getc(known, listed, read, polled, a), ~disturbed',
         UNCHANGED <<phase, library, plugged, held, pressed>>
  PROVE  \E l, k, f : Order(l, k, f, h)'
<1>1. n \in 0 .. Len(pressed) /\ m \in 0 .. n /\ GotFrom(m, g) /\ HeldFrom(n, h)
  BY DEF Order
<1>2. Len(pressed) \in Nat /\ Slots \in Nat /\ n \in Nat /\ m \in Nat
  BY <1>1, UsbAssumption, LenProperties DEF UsbTypes
<1>3. a = 0 \/ library
  BY DEF Getc
\* No keyboard is known, and the library finds none.
<1>4. CASE a = 0
  <2>1. kbd_addr = 0 /\ known = 0 /\ kbd_addr' = 0 /\ UNCHANGED <<keys, got>>
    BY <1>4 DEF Getc, UsbTypes
  <2>2. ~live /\ ~live'
    <3>1. UsbCheckForChange(0, listed) /\ live' = (library /\ plugged)
      BY <2>1 DEF Getc
    <3>2. 0 \notin Addresses
      BY UsbAssumption
    <3>3. CASE ~library \/ live
      BY <3>1, <3>3 DEF UsbCheckForChange, DeskInv
    <3>4. CASE library /\ ~live
      BY <3>1, <3>2, <3>4 DEF UsbCheckForChange
    <3>. QED BY <3>3, <3>4 DEF UsbTypes
  <2>3. GotFrom(m, g)' /\ HeldFrom(n, h)'
    <3>1. GotFrom(m, g)'
      BY <1>1, <2>1 DEF GotFrom
    <3>2. \A i \in DOMAIN held : ~(h[i] <= n)
      BY <1>1, <1>2, <2>2 DEF HeldFrom
    <3>3. HeldFrom(n, h)'
      BY <1>1, <3>2 DEF HeldFrom
    <3>. QED BY <3>1, <3>3
  <2>4. Order(n, m, g, h)'
    BY <1>1, <2>1, <2>2, <2>3 DEF Order
  <2>. QED BY <2>4
\* There is one, and what is read is what the library has listed for it.
<1>5. CASE a # 0
  <2>1. library /\ a = known /\ read = listed
    BY <1>3, <1>5 DEF Getc, ReplInv
  <2>2. /\ polled = live' /\ report' = (IF live' THEN Report(held) ELSE listed)
        /\ live' \in BOOLEAN /\ (~live' => kbd_addr' = 0)
    <3>1. live' \in BOOLEAN
      BY <2>1, GetcTypes
    <3>. QED BY <2>1, <3>1 DEF Getc
  <2>3. /\ keys' = Scan(listed).keys
        /\ got' = IF Scan(listed).result = 0 THEN got ELSE Append(got, Scan(listed).result)
    <3>1. phase # "script"
      BY DEF Reading
    <3>. QED BY <1>5, <2>1, <3>1 DEF Getc
  <2>4. listed \in [1 .. Slots -> Entries] /\ keys \in [1 .. Slots -> Entries]
    BY DEF UsbTypes, NoKeys, Entries
  <2>5. /\ keys' = listed
        /\ \/ got' = got
           \/ \E i \in 1 .. Slots :
                /\ listed[i] # 0 /\ got' = Append(got, listed[i])
                /\ \A j \in i .. Slots : keys[j] # listed[i]
    BY <2>3, <2>4, ScanResult
  \* The keyboard that was known before, or one that was not.
  <2>6. \/ live \/ kbd_addr # 0
        \/ kbd_addr = 0 /\ ~live
    BY DEF UsbTypes
  <2>7. CASE live \/ kbd_addr # 0
    <3>1. listed = report /\ live' = live
      <4>1. CASE kbd_addr = 0
        BY <2>1, <2>7, <4>1 DEF Getc, UsbCheckForChange, DeskInv, UsbTypes
      <4>2. CASE kbd_addr # 0
        BY <4>2 DEF Getc
      <4>. QED BY <4>1, <4>2
    <3>2. PICK p : ReportFrom(n, m, p)
      BY <2>7 DEF Order
    <3>3. \/ got' = got
          \/ \E y \in 1 .. n : y > m /\ got' = Append(got, pressed[y])
      <4>1. ASSUME NEW i \in 1 .. Slots, report[i] # 0, got' = Append(got, report[i]),
                   \A j \in i .. Slots : keys[j] # report[i]
            PROVE  p[i] \in 1 .. n /\ p[i] > m /\ got' = Append(got, pressed[p[i]])
        <5>1. p[i] \in 0 .. n /\ p[i] # 0 /\ ~(p[i] <= m) /\ report[i] = pressed[p[i]]
          BY <3>2, <4>1 DEF ReportFrom
        <5>. QED BY <1>2, <4>1, <5>1
      <4>. QED BY <2>5, <3>1, <4>1
    <3>4. PICK f : GotFrom(n, f)'
      BY <1>1, <3>3, GotOrder
    <3>5. CASE live
      <4>1. \A i \in DOMAIN held : h[i] <= n => \E j \in i .. Slots : keys'[j] = held[i]
        BY <1>1, <2>5, <3>1 DEF HeldFrom
      <4>2. PICK l : /\ l \in 0 .. Len(pressed) /\ n \in 0 .. l
                     /\ HeldFrom(l, h)' /\ \E q : ReportFrom(l, n, q)'
        BY <1>1, <2>2, <3>1, <3>5, <4>1, PolledOrder
      <4>3. Order(l, n, f, h)'
        BY <3>4, <4>2 DEF Order
      <4>. QED BY <4>3
    <3>6. CASE ~live
      <4>1. ~live' /\ kbd_addr' = 0 /\ report' = report
        BY <2>2, <3>1, <3>6
      <4>2. HeldFrom(n, h)'
        BY <1>1, <3>6, <4>1 DEF HeldFrom
      <4>3. n \in 0 .. n
        BY <1>2
      <4>4. Order(n, n, f, h)'
        BY <1>1, <3>4, <4>1, <4>2, <4>3 DEF Order
      <4>. QED BY <4>4
    <3>. QED BY <3>5, <3>6 DEF UsbTypes
  <2>8. CASE kbd_addr = 0 /\ ~live
    <3>1. listed = NoKeys /\ live'
      BY <1>5, <2>1, <2>8 DEF Getc, UsbCheckForChange, UsbTypes
    <3>2. \A i \in 1 .. Slots : listed[i] = 0
      BY <3>1 DEF NoKeys
    <3>3. got' = got
      BY <2>5, <3>2
    <3>4. PICK f : GotFrom(n, f)'
      BY <1>1, <3>3, GotOrder
    <3>5. \A i \in DOMAIN held : ~(h[i] <= n)
      BY <1>1, <1>2, <2>8 DEF HeldFrom
    <3>6. PICK l : /\ l \in 0 .. Len(pressed) /\ n \in 0 .. l
                   /\ HeldFrom(l, h)' /\ \E q : ReportFrom(l, n, q)'
      BY <1>1, <2>2, <3>1, <3>5, PolledOrder
    <3>7. Order(l, n, f, h)'
      BY <3>4, <3>6 DEF Order
    <3>. QED BY <3>7
  <2>. QED BY <2>6, <2>7, <2>8
<1>. QED BY <1>4, <1>5

\* Every step keeps the order.
LEMMA OrderStep ==
  ASSUME UsbTypes, DeskInv, ReplInv, OrderInv, [Next]_usbVars
  PROVE  OrderInv'
<1>1. CASE UNCHANGED <<phase, disturbed, pressed, got, held, report, keys, live, kbd_addr>>
  <2>1. \A n, m, g, h : Order(n, m, g, h) => Order(n, m, g, h)'
    BY <1>1 DEF Order, GotFrom, HeldFrom, ReportFrom
  <2>. QED BY <1>1, <2>1 DEF OrderInv, Reading
<1>2. CASE usbkbd_init
  BY <1>2, InitOrder DEF OrderInv
<1>3. CASE ~Reading'
  BY <1>3 DEF OrderInv
<1>4. ASSUME NEW k \in Keys, Press(k) PROVE OrderInv'
  <2>. SUFFICES ASSUME Reading PROVE OrderInv'
    BY <1>3, <1>4 DEF Press, Reading, hostVars
  <2>1. PICK n, m, g, h : Order(n, m, g, h)
    BY DEF OrderInv
  <2>2. \E f : Order(n, m, g, f)'
    BY <1>4, <2>1, PressOrder
  <2>. QED BY <2>2 DEF OrderInv
<1>5. ASSUME NEW k \in Keys, Release(k) PROVE OrderInv'
  <2>. SUFFICES ASSUME Reading PROVE OrderInv'
    BY <1>3, <1>5 DEF Release, Reading, hostVars
  <2>1. PICK n, m, g, h : Order(n, m, g, h)
    BY DEF OrderInv
  <2>2. \E f : Order(n, m, g, f)'
    BY <1>5, <2>1, ReleaseOrder
  <2>. QED BY <2>2 DEF OrderInv
<1>6. CASE Unplug
  <2>. SUFFICES ASSUME Reading PROVE OrderInv'
    BY <1>3, <1>6 DEF Unplug, Reading, hostVars
  <2>1. PICK n, m, g, h : Order(n, m, g, h)
    BY DEF OrderInv
  <2>2. \E f : Order(n, m, g, f)'
    BY <1>6, <2>1, UnplugOrder
  <2>. QED BY <2>2 DEF OrderInv
<1>7. CASE usbkbd_getc
  <2>1. PICK known \in {0} \cup Addresses, listed \in {report, NoKeys}, read \in {report, NoKeys},
             polled \in BOOLEAN : \E a : Getc(known, listed, read, polled, a)
    BY <1>7, GetcChoices
  <2>2. PICK a : Getc(known, listed, read, polled, a)
    BY <2>1
  <2>3. UNCHANGED <<phase, library, plugged, held, pressed>>
    BY <1>7 DEF usbkbd_getc, hostVars, deskVars
  <2>4. SUFFICES ASSUME Reading' PROVE OrderInv'
    BY <1>3
  <2>5. Reading /\ ~disturbed'
    BY <2>2, <2>3, <2>4 DEF Reading, Getc, UsbTypes
  <2>6. PICK n, m, g, h : Order(n, m, g, h)
    BY <2>5 DEF OrderInv
  <2>7. \E l, j, f : Order(l, j, f, h)'
    BY <2>2, <2>3, <2>5, <2>6, GetcOrder
  <2>. QED BY <2>7 DEF OrderInv
<1>8. CASE UsbInitialise \/ HostDelay \/ PoweredOff
  <2>1. ~Reading
    BY <1>8 DEF UsbInitialise, HostDelay, PoweredOff, ReplInv
  <2>2. UNCHANGED <<phase, disturbed>>
    BY <1>8 DEF UsbInitialise, HostDelay, PoweredOff, history
  <2>. QED BY <1>3, <2>1, <2>2 DEF Reading
<1>9. CASE KeyboardInterrupt
  <2>1. ~Reading
    BY <1>9 DEF KeyboardInterrupt, ReplInv
  <2>2. disturbed' = disturbed /\ phase' \in {phase, "hang"}
    BY <1>9 DEF KeyboardInterrupt, history
  <2>. QED BY <1>3, <2>1, <2>2 DEF Reading
<1>10. CASE UsbModeNone \/ ScriptEnds \/ SoftReboot
  <2>1. disturbed' \/ phase' # "repl"
    BY <1>10 DEF UsbModeNone, ScriptEnds, SoftReboot
  <2>. QED BY <1>3, <2>1 DEF Reading
<1>11. CASE HostReady \/ rpi_usb_host_init
  <2>1. UNCHANGED <<phase, disturbed, pressed, got, held, report, keys, live, kbd_addr>>
    BY <1>11 DEF HostReady, rpi_usb_host_init, history, kbdVars, libVars, deskVars
  <2>. QED BY <1>1, <2>1
<1>12. CASE Plug
  <2>1. UNCHANGED <<phase, disturbed, pressed, got, held, report, keys, live, kbd_addr>>
    BY <1>12 DEF Plug, hostVars, history, kbdVars, libVars
  <2>. QED BY <1>1, <2>1
<1>13. CASE MailDriver \/ Gpu \/ GpuTalks
  <2>1. UNCHANGED <<phase, disturbed, pressed, got, held, report, keys, live, kbd_addr>>
    BY <1>13 DEF MailDriver, Gpu, GpuTalks, hostVars, history, kbdVars, libVars, deskVars
  <2>. QED BY <1>1, <2>1
<1>14. CASE UNCHANGED usbVars
  <2>1. UNCHANGED <<phase, disturbed, pressed, got, held, report, keys, live, kbd_addr>>
    BY <1>14 DEF usbVars, hostVars, history, kbdVars, libVars, deskVars
  <2>. QED BY <1>1, <2>1
<1>. QED
  BY <1>2, <1>4, <1>5, <1>6, <1>7, <1>8, <1>9, <1>10, <1>11, <1>12, <1>13, <1>14
  DEF Next, Desk, HostSteps, MainSteps, ScriptSteps

-----------------------------------------------------------------------------
(* The theorems. *)

UsbInv == UsbTypes /\ MailInv /\ DeskInv /\ PowerInv /\ ReplInv /\ OrderInv

\* It holds before boot.py.
LEMMA UsbBegin == Init => UsbInv
<1>. SUFFICES ASSUME Init PROVE UsbInv
  OBVIOUS
<1>1. MailInit(NoCall) /\ call.at = "none" /\ power = FALSE
  BY DEF Init, MailInit, NoCall
<1>2. MailInv
  BY <1>1, MailBegin
<1>3. UsbTypes
  <2>1. NoKeys \in [1 .. Slots -> Entries] /\ << >> \in Seq(Keys) /\ Len(<< >>) = 0 /\ 0 <= Slots
    BY UsbAssumption DEF NoKeys, Entries
  <2>. QED BY <1>1, <2>1 DEF Init, UsbTypes
<1>4. DeskInv /\ ReplInv /\ OrderInv
  BY DEF Init, DeskInv, ReplInv, OrderInv, Reading
<1>5. PowerInv
  BY <1>1 DEF Init, PowerInv
<1>. QED BY <1>2, <1>3, <1>4, <1>5 DEF UsbInv

\* Every step keeps it.
LEMMA UsbStep == UsbInv /\ [Next]_usbVars => UsbInv'
<1>. SUFFICES ASSUME UsbInv, [Next]_usbVars PROVE UsbInv'
  OBVIOUS
<1>1. UsbTypes /\ MailInv /\ DeskInv /\ PowerInv /\ ReplInv /\ OrderInv
  BY DEF UsbInv
<1>2. MailInv'
  BY <1>1, MailOnHost, MailStep
<1>. QED BY <1>1, <1>2, TypesStep, DeskStep, PowerStep, ReplStep, OrderStep DEF UsbInv

\* The invariant of the USB host and its keyboard (usbhost.c, usbkbd.c, main.c).
THEOREM UsbInvariant == Spec => []UsbInv
<1>1. UsbInv /\ UNCHANGED usbVars => UsbInv'
  BY UsbStep
<1>. QED BY UsbBegin, UsbStep, PTL DEF Spec

\* What the keyboard gives to the REPL are keys that were pressed, in that order
\* and none twice, for any keys, any number in a report and any presses, and
\* through unplugging (usbkbd.c:123-158).
THEOREM PressesInOrder == Spec => []InPressOrder
<1>1. UsbInv => InPressOrder
  <2>. SUFFICES ASSUME UsbInv, ~disturbed
                PROVE  \E f \in [DOMAIN got -> DOMAIN pressed] :
                         \A i \in DOMAIN got : got[i] = pressed[f[i]] /\ \A j \in 1 .. i - 1 : f[j] < f[i]
    BY DEF InPressOrder
  <2>1. CASE phase = "repl"
    <3>1. PICK n, m, g, h : Order(n, m, g, h)
      BY <2>1 DEF UsbInv, OrderInv, Reading
    <3>2. DOMAIN pressed = 1 .. Len(pressed) /\ Len(pressed) \in Nat
      BY LenProperties DEF UsbInv, UsbTypes
    <3>3. g \in [DOMAIN got -> DOMAIN pressed]
      <4>1. n \in 0 .. Len(pressed) /\ m \in 0 .. n /\ g \in [DOMAIN got -> 1 .. m]
        BY <3>1 DEF Order, GotFrom
      <4>2. 1 .. m \subseteq 1 .. Len(pressed)
        BY <3>2, <4>1
      <4>. QED BY <3>2, <4>1, <4>2
    <3>. QED BY <3>1, <3>3 DEF Order, GotFrom
  <2>2. CASE phase # "repl"
    <3>1. DOMAIN got = {}
      BY <2>2 DEF UsbInv, ReplInv
    <3>2. [i \in {} |-> 1] \in [{} -> DOMAIN pressed]
      OBVIOUS
    <3>. QED BY <3>1, <3>2
  <2>. QED BY <2>1, <2>2
<1>. QED BY <1>1, UsbInvariant, PTL

\* The calls that switch the power of the USB controller never take another
\* word for their answer, whatever else the GPU sends (bcm283x_mailbox.c:10-17,
\* usbhost.c).
THEOREM PowerCallsOwnAnswer == Spec => []OwnAnswer
<1>1. UsbInv => OwnAnswer
  BY DEF UsbInv, MailInv
<1>. QED BY <1>1, UsbInvariant, PTL

\* The USB library runs only while the controller has power and the USB counts
\* as initialised.
PoweredLibrary == library => power /\ usb_initialised

\* The library has power for as long as it runs, whatever the GPU answers, through
\* boot, machine.usb_mode, interrupted delays and soft reboot (usbhost.c:32-79).
THEOREM LibraryHasPower == Spec => []PoweredLibrary
<1>1. UsbInv => PoweredLibrary
  BY DEF UsbInv, PowerInv, PoweredLibrary
<1>. QED BY <1>1, UsbInvariant, PTL
=============================================================================
