------------------------------ MODULE WebClient ------------------------------
(***************************************************************************)
(* index.html: a page with a brightness slider and mode buttons, over a    *)
(* WebSocket that may break and is opened again.  The slider's value is    *)
(* sent when a frame is drawn: at most every MinGap, only when the browser *)
(* has handed everything else to the network, and every PingGap even when  *)
(* it has not changed.  What the network has been given is under way for   *)
(* as long as it takes.                                                    *)
(***************************************************************************)
EXTENDS Integers, Sequences

CONSTANTS
  MaxLevel,   \* 255
  PageLevel,  \* 100, slider and sentState of a new page
  MinGap,     \* 25 ms
  PingGap,    \* 4 s
  MaxClicks,  \* bound: messages the buttons leave unsent
  MaxUnderWay \* messages the network takes before one arrives

Levels == 0 .. MaxLevel

VARIABLES
  slide,         \* slideState.val
  brightness,    \* sentState.brightness
  sinceSend,     \* now - sentState.lastSend, saturating
  socket,        \* its readyState
  unsent,        \* what the socket has buffered: bufferedAmount counts its bytes
  network,       \* the levels under way
  ledBrightness  \* the server's

clientVars == << slide, brightness, sinceSend, socket, unsent, network, ledBrightness >>

Cap == 1 + IF MinGap < PingGap THEN PingGap ELSE MinGap

(* lastSend is 0, long ago, when the page is loaded.                       *)
ClientInit ==
  /\ slide = PageLevel /\ brightness = PageLevel
  /\ sinceSend = Cap
  /\ socket = "connecting" /\ unsent = << >> /\ network = << >>
  /\ ledBrightness \in Levels

Clamp(v) == IF v <= 0 THEN 0 ELSE IF v >= MaxLevel THEN MaxLevel ELSE v

(* Mouse or finger move the slider by any distance.                        *)
Slide(by) ==
  /\ slide' = Clamp(slide + by)
  /\ UNCHANGED << brightness, sinceSend, socket, unsent, network, ledBrightness >>

(* A new socket if there is none that is open or will be.                  *)
EnsureSocket == IF socket = "closed" THEN "connecting" ELSE socket

(* A mode button sends the sentState of the time the page was loaded; the  *)
(* colour button spreads it when it is pressed.                            *)
Click(level) ==
  /\ Len(unsent) < MaxClicks
  /\ socket' = EnsureSocket
  /\ unsent' = IF socket' = "open"
                 THEN Append(unsent, [from |-> "button", level |-> level]) ELSE unsent
  /\ UNCHANGED << slide, brightness, sinceSend, network, ledBrightness >>

(* Mutant: no pings.                                                       *)
SlideDueNoPing == sinceSend > MinGap /\ brightness # slide /\ unsent = << >>

SlideDue ==
  sinceSend > MinGap /\ (sinceSend > PingGap \/ brightness # slide) /\ unsent = << >>

(* renderCanvas, at the end of a frame of one unit of time.                *)
RenderCanvas ==
  /\ socket' = EnsureSocket
  /\ IF socket' = "open" /\ SlideDue
       THEN /\ brightness' = slide
            /\ unsent' = Append(unsent, [from |-> "slider", level |-> slide])
            /\ sinceSend' = 1
       ELSE /\ sinceSend' = IF sinceSend < Cap THEN sinceSend + 1 ELSE Cap
            /\ UNCHANGED << brightness, unsent >>
  /\ UNCHANGED << slide, network, ledBrightness >>

(* The browser and the network: the socket opens; it breaks, and of what   *)
(* is under way the first messages may still arrive; a message is handed   *)
(* to the network, and is brought to the server.                           *)
Connect ==
  /\ socket = "connecting" /\ socket' = "open"
  /\ UNCHANGED << slide, brightness, sinceSend, unsent, network, ledBrightness >>

Break ==
  /\ socket' = "closed" /\ unsent' = << >>
  /\ \E n \in 0 .. Len(network) : network' = SubSeq(network, 1, n)
  /\ UNCHANGED << slide, brightness, sinceSend, ledBrightness >>

Transmit ==
  /\ unsent # << >> /\ Len(network) < MaxUnderWay
  /\ network' = Append(network, Head(unsent).level)
  /\ unsent' = Tail(unsent)
  /\ UNCHANGED << slide, brightness, sinceSend, socket, ledBrightness >>

Deliver ==
  /\ network # << >>
  /\ ledBrightness' = Head(network)
  /\ network' = Tail(network)
  /\ UNCHANGED << slide, brightness, sinceSend, socket, unsent >>

(* Another page, or the HTTP API.                                          *)
OtherUser(v) ==
  ledBrightness' = v /\ UNCHANGED << slide, brightness, sinceSend, socket, unsent, network >>

ByItself == RenderCanvas \/ Connect \/ Transmit \/ Deliver

ClientNext ==
  \/ ByItself
  \/ \E by \in -MaxLevel .. MaxLevel : Slide(by)
  \/ \E v \in Levels : OtherUser(v)
  \/ Click(PageLevel) \/ Click(brightness)
  \/ Break

(* The browser draws frames, and what the network can do it does.          *)
ClientFairness ==
  /\ WF_clientVars(RenderCanvas) /\ WF_clientVars(Connect)
  /\ WF_clientVars(Transmit) /\ WF_clientVars(Deliver)

ClientSpec == ClientInit /\ [][ClientNext]_clientVars /\ ClientFairness

(***************************************************************************)
(* Properties.                                                             *)
(***************************************************************************)
(* However fast the slider moves and however slow the network is, in the   *)
(* browser no value of the slider ever waits behind another message; how   *)
(* many are on their way in the network, the page cannot tell.             *)
SliderNeverQueues ==
  /\ \A i \in DOMAIN unsent : unsent[i].from = "slider" => i = 1
  /\ socket # "open" => unsent = << >>

(* Once nobody touches anything and the socket holds, the server gets the  *)
(* slider's value for good: also when the message with it was lost, when a *)
(* button has just sent the level of the time the page was loaded, or when *)
(* somebody else has set another one.                                      *)
SliderPrevails ==
  <>[][ByItself]_clientVars => <>[](ledBrightness = slide)
=============================================================================
