---------------------------- MODULE MailboxProofs ----------------------------
(***************************************************************************)
(* What the mailboxes and all of their callers keep, whoever they are      *)
(* composed with: no call leaves a word behind that the next one could     *)
(* take for its answer, and every message holds its end tag.  BoardProofs  *)
(* and UsbHostProofs use it.                                               *)
(***************************************************************************)
EXTENDS Mailbox, SequenceTheorems, TLAPS

\* The steps of the mailboxes and of every call that goes through them.
MailNext == \/ MailSteps \/ PowerDone \/ GpuAnswer \/ GpuNoise
            \/ gpu_vc_property \/ gpu_fb_init \/ \E onoff \in BOOLEAN : power_usb(onoff)

Messages == [words : Int, endtag : Int]

MailCalls ==
  [at : {"write", "read", "use"}, who : {"clock", "fb_init", "vc_property", "power_usb"},
   chan : {Framebuf, Prop}, message : {0} \cup Messages \cup BOOLEAN, reply : {"", "ok", "error"}]

MailTypeInv ==
  /\ call.at \in {"none", "write", "read", "use"} /\ (call.at # "none" => call \in MailCalls)
  /\ mail1 \in Seq({Framebuf, Prop}) /\ mail0 \in Seq({Framebuf, Prop, Other})

\* No answer is in the mailbox.
NoAnswer == \A i \in 1 .. Len(mail0) : mail0[i] = Other

\* There is one answer at most, and none before the GPU has filled the message in:
\* a call leaves nothing behind that the next could take for its own.
AnswersInv ==
  /\ call.at # "read" => mail1 = << >> /\ NoAnswer
  /\ call.at = "read" => mail1 = << >> \/ mail1 = <<call.chan>>
  /\ call.at = "read" /\ (mail1 # << >> \/ call.reply = "") => call.reply = "" /\ NoAnswer
  /\ call.at = "write" => call.reply = ""
  /\ \A i, j \in 1 .. Len(mail0) : mail0[i] # Other /\ mail0[j] # Other => i = j

MailInv == MailTypeInv /\ AnswersInv /\ OwnAnswer /\ Fits

\* The buffer of every tag that is known has a length.
LEMMA BufferSize ==
  ASSUME NEW tag \in Nat, vc_property_length(tag) # -2
  PROVE  bufsize(tag) \in Nat
<1>1. vc_property_length(tag) \in Nat \cup {-1}
  BY DEF vc_property_length
<1> QED
  BY <1>1 DEF bufsize, Palettes

\* The end tag of every message lies inside it, whatever the argument is: the
\* message has the buffer, the 24 bytes around it, and is rounded up to 16.
LEMMA EndTagInside ==
  ASSUME NEW tag \in Nat, NEW kind \in {"buffer", "list", "integers"}, NEW n \in Nat,
         vc_property_length(tag) # -2
  PROVE  /\ EndTag(tag, kind, n) \in Int /\ MessageWords(tag) \in Int
         /\ EndTag(tag, kind, n) < MessageWords(tag)
<1> DEFINE B == bufsize(tag)
<1>1. B \in Nat
  BY BufferSize
<1> HIDE DEF B
<1>2. /\ 4 * ((B + 24 + 15) \div 16) \in Int /\ 4 * ((B + 24 + 15) \div 16) >= 8
      /\ 16 * ((B + 24 + 15) \div 16) > B + 23
  BY <1>1
<1>3. AtMost(n, B) \in Nat /\ AtMost(n, B) <= B /\ AtMost(n, B \div 4) \in Nat /\ AtMost(n, B \div 4) <= B \div 4
  BY <1>1 DEF AtMost
<1>4. /\ (AtMost(n, B) + 3) \div 4 \in Int /\ 4 * ((AtMost(n, B) + 3) \div 4) <= B + 3
      /\ B \div 4 \in Int /\ 4 * (B \div 4) <= B
  BY <1>1, <1>3
<1>5. /\ EndTag(tag, kind, n) \in {6, 5 + (AtMost(n, B) + 3) \div 4, 5 + AtMost(n, B \div 4), 5 + B \div 4}
      /\ MessageWords(tag) = 4 * ((B + 24 + 15) \div 16)
  <2>1. CASE kind = "buffer"
    BY <2>1 DEF EndTag, MessageWords, B
  <2>2. CASE kind = "list"
    BY <2>2 DEF EndTag, MessageWords, B
  <2>3. CASE kind = "integers"
    BY <2>3 DEF EndTag, MessageWords, B
  <2> QED
    BY <2>1, <2>2, <2>3
<1> QED
  BY <1>1, <1>2, <1>3, <1>4, <1>5

\* A mailbox with one word.
LEMMA OneWord ==
  ASSUME NEW x
  PROVE  Append(<< >>, x) = <<x>> /\ Head(<<x>>) = x /\ Tail(<<x>>) = << >> /\ <<x>> # << >> /\ Len(<<x>>) = 1
OBVIOUS

\* What a step that changes a call leaves as it is.
LEMMA CallFields ==
  ASSUME NEW c \in MailCalls
  PROVE  c.at \in {"write", "read", "use"} /\ c.reply \in {"", "ok", "error"} /\ c.chan \in {1, 8}
BY DEF MailCalls, Framebuf, Prop

\* A call that goes on to another place stays the same call.
LEMMA CallAt ==
  ASSUME NEW c \in MailCalls, NEW a \in {"write", "read", "use"}, NEW d, d = [c EXCEPT !.at = a]
  PROVE  /\ d \in MailCalls /\ d.at = a /\ d.chan = c.chan /\ d.who = c.who
         /\ d.message = c.message /\ d.reply = c.reply
BY DEF MailCalls

\* A call that gets a reply stays at its place and keeps its message.
LEMMA CallReply ==
  ASSUME NEW c \in MailCalls, NEW r \in {"", "ok", "error"}, NEW d, d = [c EXCEPT !.reply = r]
  PROVE  /\ d \in MailCalls /\ d.at = c.at /\ d.chan = c.chan /\ d.who = c.who
         /\ d.message = c.message /\ d.reply = r
BY DEF MailCalls

\* A call that is sent again (fb_init's loop) keeps its message and has no
\* reply.
LEMMA CallAgain ==
  ASSUME NEW c \in MailCalls, NEW d, d = [c EXCEPT !.at = "write", !.reply = ""]
  PROVE  d \in MailCalls /\ d.at = "write" /\ d.chan = c.chan /\ d.who = c.who /\ d.message = c.message /\ d.reply = ""
BY DEF MailCalls

\* What the mailbox from the GPU holds after a word is taken out of it or put in.
LEMMA MailTail ==
  ASSUME mail0 \in Seq({1, 8, 3}), mail0 # << >>, mail0' = Tail(mail0), AnswersInv
  PROVE  /\ mail0' \in Seq({1, 8, 3}) /\ (NoAnswer => NoAnswer')
         /\ Head(mail0) \in {1, 8, 3} /\ (NoAnswer => Head(mail0) = 3) /\ (Head(mail0) # 3 => NoAnswer')
         /\ \A i, j \in 1 .. Len(mail0') : mail0'[i] # 3 /\ mail0'[j] # 3 => i = j
<1>1. /\ mail0' \in Seq({1, 8, 3}) /\ Len(mail0') = Len(mail0) - 1
      /\ \A i \in 1 .. Len(mail0') : mail0'[i] = mail0[i + 1]
      /\ Len(mail0) \in Nat \ {0} /\ Head(mail0) = mail0[1] /\ mail0[1] \in {1, 8, 3}
  BY HeadTailProperties, EmptySeq
<1>2. \A i, j \in 1 .. Len(mail0) : mail0[i] # 3 /\ mail0[j] # 3 => i = j
  BY DEF AnswersInv, Other
<1>3. \A i \in 1 .. Len(mail0') : i + 1 \in 1 .. Len(mail0) /\ 1 \in 1 .. Len(mail0) /\ i + 1 # 1
  BY <1>1
<1> QED
  BY <1>1, <1>2, <1>3 DEF NoAnswer, Other

\* A word put into the mailbox keeps it a mailbox with at most one answer to a
\* pending call.
LEMMA MailAppend ==
  ASSUME mail0 \in Seq({1, 8, 3}), NEW w \in {1, 8, 3}, mail0' = Append(mail0, w), AnswersInv,
         NoAnswer \/ w = 3
  PROVE  /\ mail0' \in Seq({1, 8, 3}) /\ (NoAnswer /\ w = 3 => NoAnswer')
         /\ \A i, j \in 1 .. Len(mail0') : mail0'[i] # 3 /\ mail0'[j] # 3 => i = j
<1>1. /\ mail0' \in Seq({1, 8, 3}) /\ Len(mail0') = Len(mail0) + 1 /\ Len(mail0) \in Nat
      /\ \A i \in 1 .. Len(mail0) : mail0'[i] = mail0[i]
      /\ mail0'[Len(mail0) + 1] = w
  BY AppendProperties
<1>2. \A i, j \in 1 .. Len(mail0) : mail0[i] # 3 /\ mail0[j] # 3 => i = j
  BY DEF AnswersInv, Other
<1>3. \A i \in 1 .. Len(mail0') : i \in 1 .. Len(mail0) \/ i = Len(mail0) + 1
  BY <1>1
<1> QED
  BY <1>1, <1>2, <1>3 DEF NoAnswer, Other

\* Every step of the mailboxes and of their callers keeps the invariant.
LEMMA MailStep == MailInv /\ [MailNext]_mailVars => MailInv'
<1> SUFFICES ASSUME MailInv, [MailNext]_mailVars PROVE MailInv'
  OBVIOUS
<1>a. /\ call.at \in {"none", "write", "read", "use"} /\ (call.at # "none" => call \in MailCalls)
      /\ mail1 \in Seq({1, 8}) /\ mail0 \in Seq({1, 8, 3}) /\ AnswersInv
      /\ OwnAnswer /\ Fits
  BY DEF MailInv, MailTypeInv, Framebuf, Prop, Other
<1>b. ASSUME call'.at = "none", mail1' = << >>, NoAnswer', mail0' \in Seq({1, 8, 3})
      PROVE  MailInv'
  <2>1. mail1' \in Seq({1, 8})
    BY <1>b
  <2> QED
  BY <1>b, <2>1 DEF MailInv, MailTypeInv, AnswersInv, OwnAnswer, Fits, MailIdle, NoAnswer, Framebuf, Prop, Other
<1>1. CASE mailbox_write
  <2>1. call.at = "write" /\ call \in MailCalls /\ call' = [call EXCEPT !.at = "read"] /\ UNCHANGED mail0
    BY <1>1, <1>a DEF mailbox_write
  <2>2. mail1 = << >> /\ mail1' = Append(mail1, call.chan) /\ NoAnswer /\ call.reply = ""
    BY <1>1, <1>a DEF mailbox_write, AnswersInv
  <2>3. mail1' = <<call.chan>> /\ mail1' \in Seq({1, 8}) /\ NoAnswer'
    <3>1. mail1' = <<call.chan>> /\ NoAnswer'
      BY <2>1, <2>2, OneWord DEF NoAnswer
    <3>2. call.chan \in {1, 8}
      BY <2>1, CallFields
    <3> QED
      BY <3>1, <3>2
  <2>4. /\ call' \in MailCalls /\ call'.at = "read" /\ call'.chan = call.chan /\ call'.who = call.who
        /\ call'.message = call.message /\ call'.reply = ""
    <3>1. /\ call' \in MailCalls /\ call'.at = "read" /\ call'.chan = call.chan /\ call'.who = call.who
          /\ call'.message = call.message /\ call'.reply = call.reply
      BY <2>1, CallAt
    <3> QED
      BY <2>2, <3>1
  <2>5. \A i, j \in 1 .. Len(mail0') : mail0'[i] # 3 /\ mail0'[j] # 3 => i = j
    <3>1. \A i, j \in 1 .. Len(mail0) : mail0[i] # 3 /\ mail0[j] # 3 => i = j
      BY <1>a DEF AnswersInv, Other
    <3>2. mail0' = mail0
      BY <2>1
    <3> QED
      BY <3>1, <3>2
  <2>6. OwnAnswer' /\ Fits'
    BY <1>a, <2>1, <2>4 DEF OwnAnswer, Fits, MailIdle
  <2>7. AnswersInv'
    BY <2>3, <2>4, <2>5 DEF AnswersInv, Other
  <2> QED
    BY <1>a, <2>1, <2>3, <2>4, <2>6, <2>7 DEF MailInv, MailTypeInv, AnswersInv, OwnAnswer, Fits, MailIdle, Framebuf, Prop, Other
<1>2. CASE mailbox_read
  <2>1. /\ call.at = "read" /\ call \in MailCalls /\ mail0 # << >> /\ mail0' = Tail(mail0) /\ UNCHANGED mail1
        /\ call' = IF Head(mail0) = call.chan THEN [call EXCEPT !.at = "use"] ELSE call
    BY <1>2, <1>a DEF mailbox_read
  <2>2. /\ mail0' \in Seq({1, 8, 3}) /\ (NoAnswer => NoAnswer')
        /\ Head(mail0) \in {1, 8, 3} /\ (NoAnswer => Head(mail0) = 3) /\ (Head(mail0) # 3 => NoAnswer')
        /\ \A i, j \in 1 .. Len(mail0') : mail0'[i] # 3 /\ mail0'[j] # 3 => i = j
    BY <1>a, <2>1, MailTail
  <2>3. CASE Head(mail0) = call.chan
    <3>1. Head(mail0) # 3 /\ ~NoAnswer /\ call.reply # "" /\ mail1' = << >> /\ NoAnswer'
      <4>1. call.chan \in {1, 8}
        BY <2>1, CallFields
      <4>2. Head(mail0) # 3
        BY <2>3, <4>1
      <4>3. NoAnswer' /\ ~NoAnswer
        BY <2>2, <4>2
      <4> QED
        BY <1>a, <2>1, <4>2, <4>3 DEF AnswersInv
    <3>2. /\ call' \in MailCalls /\ call'.at = "use" /\ call'.chan = call.chan /\ call'.who = call.who
          /\ call'.message = call.message /\ call'.reply = call.reply
      BY <2>1, <2>3, CallAt
    <3> QED
      BY <1>a, <2>1, <2>2, <3>1, <3>2 DEF MailInv, MailTypeInv, AnswersInv, OwnAnswer, Fits, MailIdle, Framebuf, Prop, Other
  <2>4. CASE Head(mail0) # call.chan
    BY <1>a, <2>1, <2>2, <2>4 DEF MailInv, MailTypeInv, AnswersInv, OwnAnswer, Fits, MailIdle, Framebuf, Prop, Other
  <2> QED
    BY <2>3, <2>4
<1>3. CASE PropertyRead \/ ClockRead \/ PowerDone
  <2>1. call.at = "use" /\ call' = NoCall /\ UNCHANGED <<mail1, mail0>>
    BY <1>3 DEF PropertyRead, ClockRead, PowerDone
  <2> QED
    BY <1>a, <1>b, <2>1 DEF AnswersInv, NoAnswer, NoCall
<1>4. CASE FramebufRead
  <2>1. /\ call.at = "use" /\ call \in MailCalls /\ UNCHANGED <<mail1, mail0>>
        /\ call' = NoCall \/ call' = [call EXCEPT !.at = "write", !.reply = ""]
    BY <1>4, <1>a DEF FramebufRead
  <2>2. mail1' = << >> /\ NoAnswer'
    BY <1>a, <2>1 DEF AnswersInv, NoAnswer
  <2>3. CASE call' = NoCall
    BY <1>a, <1>b, <2>1, <2>2, <2>3 DEF NoCall
  <2>4. CASE call' = [call EXCEPT !.at = "write", !.reply = ""]
    <3>1. /\ call' \in MailCalls /\ call'.at = "write" /\ call'.who = call.who
          /\ call'.message = call.message /\ call'.reply = ""
      BY <2>1, <2>4, CallAgain
    <3> QED
      BY <1>a, <2>1, <2>2, <3>1 DEF MailInv, MailTypeInv, AnswersInv, OwnAnswer, Fits, MailIdle, Framebuf, Prop, Other
  <2> QED
    BY <2>1, <2>3, <2>4
<1>5. CASE GpuAnswer
  <2>1. PICK reply \in {"ok", "error"} : call' = [call EXCEPT !.reply = reply]
    BY <1>5 DEF GpuAnswer
  <2>2. mail1 # << >> /\ mail0' = Append(mail0, Head(mail1)) /\ mail1' = Tail(mail1)
    BY <1>5 DEF GpuAnswer
  <2>3. call.at = "read" /\ call \in MailCalls /\ mail1 = <<call.chan>> /\ NoAnswer
    BY <1>a, <2>2 DEF AnswersInv
  <2>4. mail1' = << >> /\ mail0' = Append(mail0, call.chan) /\ call.chan \in {1, 8, 3}
    BY <2>2, <2>3, CallFields, OneWord
  <2>5. /\ mail0' \in Seq({1, 8, 3})
        /\ \A i, j \in 1 .. Len(mail0') : mail0'[i] # 3 /\ mail0'[j] # 3 => i = j
    BY <1>a, <2>3, <2>4, MailAppend
  <2>6. /\ call' \in MailCalls /\ call'.at = "read" /\ call'.chan = call.chan /\ call'.who = call.who
        /\ call'.message = call.message /\ call'.reply = reply
    BY <2>1, <2>3, CallReply
  <2>7. OwnAnswer' /\ Fits'
    BY <1>a, <2>3, <2>6 DEF OwnAnswer, Fits, MailIdle
  <2>8. AnswersInv'
    <3>1. reply # ""
      OBVIOUS
    <3> QED
      BY <2>3, <2>4, <2>5, <2>6, <3>1 DEF AnswersInv, Other
  <2>9. mail1' \in Seq({1, 8})
    BY <2>4
  <2> QED
    BY <2>3, <2>5, <2>6, <2>7, <2>8, <2>9 DEF MailInv, MailTypeInv, AnswersInv, OwnAnswer, Fits, MailIdle, Framebuf, Prop, Other
<1>6. CASE GpuNoise
  <2>1. mail0' = Append(mail0, 3) /\ UNCHANGED <<mail1, call>>
    BY <1>6 DEF GpuNoise, Other
  <2>2. /\ mail0' \in Seq({1, 8, 3}) /\ (NoAnswer => NoAnswer')
        /\ \A i, j \in 1 .. Len(mail0') : mail0'[i] # 3 /\ mail0'[j] # 3 => i = j
    BY <1>a, <2>1, MailAppend
  <2> QED
    BY <1>a, <2>1, <2>2 DEF MailInv, MailTypeInv, AnswersInv, OwnAnswer, Fits, MailIdle, Framebuf, Prop, Other
<1>7. ASSUME NEW who \in {"fb_init", "vc_property", "power_usb"}, NEW chan \in {1, 8},
             NEW message \in {0} \cup Messages \cup BOOLEAN,
             who = "vc_property" => message.endtag < message.words,
             Request(who, chan, message), UNCHANGED <<mail1, mail0>>
      PROVE  MailInv'
  <2>1. call.at = "none" /\ mail1' = << >> /\ NoAnswer'
    BY <1>a, <1>7 DEF Request, MailIdle, AnswersInv, NoAnswer
  <2>2. /\ call' \in MailCalls /\ call'.at = "write" /\ call'.who = who /\ call'.message = message
        /\ call'.reply = ""
    BY <1>7 DEF Request, Begin, MailCalls, Framebuf, Prop
  <2> QED
    BY <1>a, <1>7, <2>1, <2>2 DEF MailInv, MailTypeInv, AnswersInv, NoAnswer, OwnAnswer, Fits, MailIdle, Framebuf, Prop, Other
<1>8. CASE gpu_vc_property
  <2>1. PICK tag \in Tags, kind \in {"buffer", "list", "integers"} :
          \E n \in IF kind = "buffer" THEN BufferSizes ELSE Counts :
            /\ vc_property_length(tag) # -2
            /\ Request("vc_property", Prop, [words |-> MessageWords(tag), endtag |-> EndTag(tag, kind, n)])
            /\ UNCHANGED <<mail1, mail0, freqs, buf_addr, power>>
    BY <1>8, Zenon DEF gpu_vc_property
  <2>2. PICK n \in IF kind = "buffer" THEN BufferSizes ELSE Counts :
            /\ vc_property_length(tag) # -2
            /\ Request("vc_property", Prop, [words |-> MessageWords(tag), endtag |-> EndTag(tag, kind, n)])
            /\ UNCHANGED <<mail1, mail0, freqs, buf_addr, power>>
    BY <2>1, Zenon
  <2>3. tag \in Nat /\ n \in Nat
    BY MailboxAssumption
  <2>4. /\ EndTag(tag, kind, n) \in Int /\ MessageWords(tag) \in Int
        /\ EndTag(tag, kind, n) < MessageWords(tag)
    BY <2>2, <2>3, EndTagInside
  <2> DEFINE message == [words |-> MessageWords(tag), endtag |-> EndTag(tag, kind, n)]
  <2>5. message \in Messages /\ message.endtag < message.words
    BY <2>4 DEF Messages
  <2>6. Request("vc_property", 8, message) /\ UNCHANGED <<mail1, mail0>>
    BY <2>2 DEF Prop
  <2> HIDE DEF message
  <2> QED
    BY <1>7, <2>5, <2>6
<1>9. CASE gpu_fb_init
  BY <1>7, <1>9 DEF gpu_fb_init, Framebuf
<1>10. CASE \E onoff \in BOOLEAN : power_usb(onoff)
  BY <1>7, <1>10 DEF power_usb, Prop
<1>11. CASE UNCHANGED mailVars
  BY <1>a, <1>11 DEF mailVars, MailInv, MailTypeInv, AnswersInv, NoAnswer, OwnAnswer, Fits, MailIdle
<1> QED
  BY <1>1, <1>2, <1>3, <1>4, <1>5, <1>6, <1>8, <1>9, <1>10, <1>11 DEF MailNext, MailSteps

\* It holds before any call, and when the start-up asks for its clock rate.
LEMMA MailBegin ==
  ASSUME NEW first \in {NoCall, get_clock_value}, MailInit(first)
  PROVE  MailInv
<1>1. mail1 = << >> /\ mail0 = << >> /\ call = first
  BY DEF MailInit
<1>2. << >> \in Seq({1, 8}) /\ << >> \in Seq({1, 8, 3}) /\ Len(<< >>) = 0
  BY EmptySeq
<1>3. \/ call.at = "none"
      \/ call \in MailCalls /\ call.at = "write" /\ call.reply = "" /\ call.who = "clock"
  <2>1. CASE first = NoCall
    BY <1>1, <2>1 DEF NoCall
  <2>2. CASE first = get_clock_value
    BY <1>1, <2>2 DEF get_clock_value, Begin, MailCalls, Framebuf, Prop
  <2> QED
    BY <2>1, <2>2
<1>4. MailTypeInv
  BY <1>1, <1>2, <1>3 DEF MailTypeInv, Framebuf, Prop, Other
<1>5. OwnAnswer /\ Fits
  BY <1>3 DEF OwnAnswer, Fits, MailIdle
<1>6. \A i \in 1 .. Len(mail0) : FALSE
  BY <1>1, <1>2
<1>7. AnswersInv
  BY <1>1, <1>3, <1>6 DEF AnswersInv, NoAnswer
<1>. QED  BY <1>4, <1>5, <1>7 DEF MailInv
=============================================================================
