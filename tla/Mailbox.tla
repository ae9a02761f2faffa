------------------------------ MODULE Mailbox ------------------------------
(***************************************************************************)
(* The mailboxes between the ARM and the GPU (bcm283x_mailbox.c) and the   *)
(* calls that go through them: the clock rates at start-up (rpi.c), the    *)
(* frame buffer (gpu.c, modgpu.c), the power of the USB controller         *)
(* (usbhost.c) and gpu.vc_property (gpu_vc_property.c, vc_property.c).     *)
(*                                                                         *)
(* A call leaves a message in memory, writes its address to one mailbox    *)
(* and waits at the other until a word for its channel comes.  The GPU     *)
(* fills the message in first; it also sends words of its own accord, on   *)
(* other channels.                                                         *)
(***************************************************************************)
EXTENDS Integers, Sequences

CONSTANTS
  MailDepth,    \* words in a mailbox
  Noise,        \* bound: words the GPU sends on other channels, in a call
  Refusals,     \* bound: requests for a frame buffer that the GPU refuses, in a call
  Tags,         \* the tags scripts ask vc_property for
  BufferSizes,  \* bytes in the buffers they give it
  Counts        \* and how many integers, in a list or one by one

ASSUME MailboxAssumption ==
  /\ MailDepth \in Nat \ {0} /\ Noise \in Nat /\ Refusals \in Nat
  /\ Tags \subseteq Nat /\ BufferSizes \subseteq Nat /\ Counts \subseteq Nat

VARIABLES
  mail1, mail0,   \* the channels of the words to the GPU, and from it
  call,           \* the call under way
  noise, refused, \* how much of Noise and Refusals is spent in it
  freqs,          \* "default" or "read": rpi.c's freq_cpu and freq_core
  buf_addr,       \* whether fb_info has the address of a frame buffer
  power           \* whether the USB controller has power

mailVars == <<mail1, mail0, call, noise, refused, freqs, buf_addr, power>>

Framebuf == 1   \* MB_CH_FRAMEBUF
Prop     == 8   \* MB_CH_PROP_ARM
Other    == 3   \* a channel nobody reads

NoCall == [at |-> "none"]

MailInit(first) ==
  /\ mail1 = << >> /\ mail0 = << >> /\ call = first /\ noise = 0 /\ refused = 0
  /\ freqs = "default" /\ buf_addr = FALSE /\ power = FALSE

MailIdle == call.at = "none"

\* reply is what the GPU has written into the message: "" until it has.
Begin(who, chan, message) ==
  [at |-> "write", who |-> who, chan |-> chan, message |-> message, reply |-> ""]

Request(who, chan, message) ==
  /\ MailIdle
  /\ call' = Begin(who, chan, message)
  /\ noise' = 0 /\ refused' = 0

-----------------------------------------------------------------------------
(* The mailboxes. *)

mailbox_write ==
  /\ call.at = "write" /\ Len(mail1) < MailDepth
  /\ mail1' = Append(mail1, call.chan)
  /\ call' = [call EXCEPT !.at = "read"]
  /\ UNCHANGED <<mail0, noise, refused, freqs, buf_addr, power>>

\* Wrong on purpose: the first word that comes is taken for the answer.
mailbox_read_Any ==
  /\ call.at = "read" /\ mail0 # << >>
  /\ mail0' = Tail(mail0)
  /\ call' = [call EXCEPT !.at = "use"]
  /\ UNCHANGED <<mail1, noise, refused, freqs, buf_addr, power>>

\* Wrong on purpose: a word for another channel is left where it is.
mailbox_read_Leave ==
  /\ call.at = "read" /\ mail0 # << >> /\ Head(mail0) = call.chan
  /\ mail0' = Tail(mail0)
  /\ call' = [call EXCEPT !.at = "use"]
  /\ UNCHANGED <<mail1, noise, refused, freqs, buf_addr, power>>

\* A word for another channel is dropped.
mailbox_read ==
  /\ call.at = "read" /\ mail0 # << >>
  /\ mail0' = Tail(mail0)
  /\ call' = IF Head(mail0) = call.chan THEN [call EXCEPT !.at = "use"] ELSE call
  /\ UNCHANGED <<mail1, noise, refused, freqs, buf_addr, power>>

\* The GPU fills the message in and answers.
GpuAnswer ==
  /\ mail1 # << >> /\ Len(mail0) < MailDepth
  /\ \E reply \in {"ok", "error"} :
       /\ reply = "error" /\ call.who = "fb_init" => refused < Refusals
       /\ call' = [call EXCEPT !.reply = reply]
       /\ refused' = IF reply = "error" THEN 1 + refused ELSE refused
       /\ power' = IF call.who = "power_usb" /\ reply = "ok" THEN call.message ELSE power
  /\ mail0' = Append(mail0, Head(mail1)) /\ mail1' = Tail(mail1)
  /\ UNCHANGED <<noise, freqs, buf_addr>>

GpuNoise ==
  /\ ~MailIdle /\ noise < Noise /\ Len(mail0) < MailDepth
  /\ mail0' = Append(mail0, Other) /\ noise' = noise + 1
  /\ UNCHANGED <<mail1, call, refused, freqs, buf_addr, power>>

-----------------------------------------------------------------------------
(* The messages of vc_property: the index of the end tag against the words *)
(* of the message.                                                         *)

\* vc_property_length; -1 means that the length varies, -2 an unknown tag.
vc_property_length(tag) ==
  CASE tag = 294913 -> 0                                    \* 0x48001
    [] tag \in {1, 65537, 65538, 393217, 196621, 196622, 196623, 262146, 262149, 278533,
                294917, 262150, 278534, 294918, 262151, 278535, 294919, 262152} -> 4
    [] tag = 65539 -> 6                                     \* 0x10003, the MAC address
    [] tag \in {65540, 65541, 65542, 131073, 131074, 163841, 196609, 229377, 196610, 196612,
                196615, 196617, 229385, 196611, 229379, 196613, 196616, 196614, 196618,
                196628, 262145, 262147, 278531, 294915, 262148, 278532, 294916, 262153,
                278537, 294921} -> 8
    [] tag \in {229378, 196620} -> 12
    [] tag \in {262154, 278538, 294922, 32785} -> 16
    [] tag = 32784 -> 24                                    \* 0x8010
    [] tag = 196624 -> 28                                   \* 0x30010
    [] tag = 196640 -> 136                                  \* 0x30020
    [] tag = 262155 -> 1024                                 \* 0x4000b
    [] tag \in {65543, 327681, 278539, 294923} -> -1
    [] OTHER -> -2

Palettes == {278539, 294923}                   \* 0x4400b, 0x4800b
Handles  == {196621, 196622, 196623, 196628}   \* tags whose buffer is a handle

bufsize(tag) ==
  LET len == vc_property_length(tag)
  IN IF len # -1 THEN len ELSE IF tag \in Palettes THEN 1032 ELSE 1024

\* Wrong on purpose: no room for the end tag.
MessageWords_Short(tag) == (bufsize(tag) + 20) \div 4

\* bufsize and 24 bytes more, rounded up to 16 bytes
MessageWords(tag) == 4 * ((bufsize(tag) + 24 + 15) \div 16)

AtMost(n, m) == IF n > m THEN m ELSE n

\* The argument after the tag is a buffer, a list or tuple of n integers, or the
\* arguments are integers.
EndTag(tag, kind, n) ==
  CASE kind = "buffer" /\ tag \in Handles -> 6
    [] kind = "buffer" /\ tag \notin Handles -> 5 + (AtMost(n, bufsize(tag)) + 3) \div 4
    [] kind = "list" -> 5 + AtMost(n, bufsize(tag) \div 4)
    [] kind = "integers" -> 5 + bufsize(tag) \div 4

\* An unknown tag raises, and so does an argument that is no integer.
gpu_vc_property ==
  \E tag \in Tags, kind \in {"buffer", "list", "integers"} :
    \E n \in IF kind = "buffer" THEN BufferSizes ELSE Counts :
      /\ vc_property_length(tag) # -2
      /\ Request("vc_property", Prop, [words |-> MessageWords(tag), endtag |-> EndTag(tag, kind, n)])
      /\ UNCHANGED <<mail1, mail0, freqs, buf_addr, power>>

\* It returns a value or raises; the buffer is not used again.
PropertyRead ==
  /\ call.at = "use" /\ call.who = "vc_property"
  /\ call' = NoCall
  /\ UNCHANGED <<mail1, mail0, noise, refused, freqs, buf_addr, power>>

-----------------------------------------------------------------------------
(* The other calls. *)

\* The start-up's call.
get_clock_value == Begin("clock", Prop, 0)

ClockRead ==
  /\ call.at = "use" /\ call.who = "clock"
  /\ freqs' = IF call.reply = "ok" THEN "read" ELSE freqs
  /\ call' = NoCall
  /\ UNCHANGED <<mail1, mail0, noise, refused, buf_addr, power>>

\* gpu.fb_init forgets the frame buffer and asks until it has one.
gpu_fb_init ==
  /\ Request("fb_init", Framebuf, 0)
  /\ buf_addr' = FALSE
  /\ UNCHANGED <<mail1, mail0, freqs, power>>

FramebufRead ==
  /\ call.at = "use" /\ call.who = "fb_init"
  /\ buf_addr' = (call.reply = "ok")
  /\ call' = IF call.reply = "ok" THEN NoCall ELSE [call EXCEPT !.at = "write", !.reply = ""]
  /\ UNCHANGED <<mail1, mail0, noise, refused, freqs, power>>

power_usb(onoff) ==
  /\ Request("power_usb", Prop, onoff)
  /\ UNCHANGED <<mail1, mail0, freqs, buf_addr, power>>

PowerDone ==
  /\ call.at = "use" /\ call.who = "power_usb"
  /\ call' = NoCall
  /\ UNCHANGED <<mail1, mail0, noise, refused, freqs, buf_addr, power>>

MailSteps == mailbox_write \/ mailbox_read \/ PropertyRead \/ ClockRead \/ FramebufRead

-----------------------------------------------------------------------------
(* Properties. *)

\* No call looks into its message before the GPU has filled it in, whatever
\* other words are in the mailbox (bcm283x_mailbox.c:10-17).
OwnAnswer == call.at = "use" => call.reply # ""

\* The end tag lies inside the message, for every tag and every argument
\* (gpu_vc_property.c:34-106).
Fits == ~MailIdle /\ call.who = "vc_property" => call.message.endtag < call.message.words
=============================================================================
