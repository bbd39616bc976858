------------------------------ MODULE NodePanel ------------------------------
(***************************************************************************)
(* The front panel: the local button with its debouncing (uNode_2.ino) and *)
(* the two status LEDs (leds.cpp, status_led_driver.cpp), which the        *)
(* button, ArtAddress, the web interface, an update and the traffic of the *)
(* protocols all act on.                                                   *)
(*                                                                         *)
(* Colours, blink phases and brightness are left out: what the LEDs show   *)
(* is which of the layers of updateLEDs() is on top.                       *)
(***************************************************************************)
EXTENDS Integers

CONSTANTS
  Debounce,      \* BUTTON_DEBOUNCE_MS, in ticks
  ShortPressMax, \* BUTTON_SHORT_PRESS_MAX_MS
  LongPress,     \* BUTTON_LONG_PRESS_MS
  FlashTime,     \* length of an activity pulse
  PatternTime    \* time the pattern of a failed update is shown

ASSUME PanelAssumption ==
  /\ Debounce \in Nat \ {0} /\ ShortPressMax \in Nat /\ LongPress \in Nat
  /\ ShortPressMax < LongPress
  /\ FlashTime \in Nat \ {0} /\ PatternTime \in Nat \ {0}

VARIABLES
  contact,    \* the button is pressed (external)
  button,     \* what updateLocalButton() remembers
  pressActs,  \* history: actions executed for the press in progress
  led,        \* the state leds.cpp keeps
  reported,   \* the indicator state in the ArtPollReply, a copy of its own
  rendered    \* what updateLEDs() last gave to the driver

panelVars == <<contact, button, pressActs, led, reported, rendered>>
ledVars == <<led, reported, rendered>>

Indicators == {"normal", "mute", "locate"}
ButtonActions == {"disabled", "locate", "mute"}
Unset == -1     \* buttonPressedSinceMillis = 0
Stuck == -2     \* artnetFlashUntil left over from before millis() wrapped

PanelTypeOK ==
  /\ contact \in BOOLEAN /\ pressActs \in Nat
  /\ button \in [last : BOOLEAN, age : 0..Debounce, down : BOOLEAN,
                 held : {Unset} \cup 0..LongPress, longFired : BOOLEAN]
  /\ led \in [indicator : Indicators, mute : BOOLEAN, override : BOOLEAN,
              pattern : {"none", "progress", "success", "failed"},
              patternLeft : 0..PatternTime, flash : {Stuck} \cup 0..FlashTime]
  /\ reported \in Indicators
  /\ rendered \in [layer : {"pattern", "override", "dark", "locate", "status"},
                   activity : BOOLEAN]

PanelInit ==
  /\ contact = FALSE /\ pressActs = 0
  /\ button = [last |-> FALSE, age |-> Debounce, down |-> FALSE, held |-> Unset,
               longFired |-> FALSE]
  /\ led = [indicator |-> "normal", mute |-> FALSE, override |-> FALSE,
            pattern |-> "none", patternLeft |-> 0, flash |-> 0]
  /\ reported = "normal"
  /\ rendered = [layer |-> "status", activity |-> FALSE]

---------------------------------------------------------------------------
(* LEDs                                                                    *)

\* toggleArtNetLocate() decides by the copy in the ArtPollReply and sets
\* both; it leaves a local mute alone.
ToggledLocate == IF reported = "locate" THEN "normal" ELSE "locate"

ToggleLocate ==
  /\ reported' = ToggledLocate
  /\ led' = [led EXCEPT !.indicator = ToggledLocate]

PatternOver(l) == l.pattern = "failed" /\ l.patternLeft = 0

\* renderSystemPattern(): a pattern whose time is over is taken away.
WithoutOldPattern(l) == IF PatternOver(l) THEN [l EXCEPT !.pattern = "none"] ELSE l

Muted(l) == l.mute \/ l.indicator = "mute"

Layer(l) == CASE l.pattern # "none" -> "pattern"
              [] l.pattern = "none" /\ l.override -> "override"
              [] l.pattern = "none" /\ ~l.override /\ Muted(l) -> "dark"
              [] OTHER -> IF l.indicator = "locate" THEN "locate" ELSE "status"

\* The activity LED is lit while now < artnetFlashUntil: a comparison of raw
\* times, true again after the wrap for an end that lies before it.
Shown(l) == [layer |-> Layer(l), activity |-> Layer(l) = "status" /\ l.flash # 0]

UpdateLEDs(l) == /\ led' = WithoutOldPattern(l)
                 /\ rendered' = Shown(WithoutOldPattern(l))

LedPass == UpdateLEDs(led) /\ UNCHANGED <<contact, button, pressActs, reported>>

LedsOnly == UNCHANGED <<contact, button, pressActs>>

\* onArtAddress(): AcLedNormal, AcLedMute and AcLedLocate.
ArtAddressIndicator(i) ==
  /\ led' = [led EXCEPT !.mute = FALSE, !.indicator = i]
  /\ reported' = i
  /\ UNCHANGED rendered /\ LedsOnly

\* handleDetectNode().
WebLocate == ToggleLocate /\ UNCHANGED rendered /\ LedsOnly

\* handleLedMute().
WebMute(muted) ==
  /\ led' = [led EXCEPT !.mute = muted]
  /\ UNCHANGED <<reported, rendered>> /\ LedsOnly

\* handleSetLedColors() and handleReleaseLedColors(): rendered at once.
WebOverride(on) ==
  /\ UpdateLEDs([led EXCEPT !.override = on])
  /\ UNCHANGED reported /\ LedsOnly

\* flashArtNetLED() and its siblings, called for traffic.
Flash ==
  /\ led' = [led EXCEPT !.flash = FlashTime]
  /\ UNCHANGED <<reported, rendered>> /\ LedsOnly

\* showUpdate...LEDs(): only the pattern of a failure ends by itself.
UpdatePattern(kind) ==
  /\ led' = [led EXCEPT !.pattern = kind,
                        !.patternLeft = IF kind = "failed" THEN PatternTime ELSE 0]
  /\ UNCHANGED <<reported, rendered>> /\ LedsOnly

---------------------------------------------------------------------------
(* The button                                                              *)

ExecuteButtonAction(action) ==
  CASE action = "locate" -> ToggleLocate
    [] action = "mute" -> led' = [led EXCEPT !.mute = ~@] /\ UNCHANGED reported
    [] OTHER -> UNCHANGED <<led, reported>>

Sampled(b) == IF contact # b.last THEN [b EXCEPT !.last = contact, !.age = 0] ELSE b

ShortReleased(b) == ~b.longFired /\ (b.held = Unset \/ b.held <= ShortPressMax)

\* Variant: the long action does not mark the press as used.
LongFiredAgain(b) == b

LongFired(b) == [b EXCEPT !.longFired = TRUE]

LongDue(b) == b.down /\ ~b.longFired /\ b.held # Unset /\ b.held >= LongPress

NoAction == UNCHANGED <<led, reported, pressActs>>

Act == /\ \E action \in ButtonActions : ExecuteButtonAction(action)
       /\ pressActs' = pressActs + 1

\* updateLocalButton().  The press time is 0, which means "no press", when
\* millis() is 0 just then: such a press never becomes a long one.
ButtonWaits ==
  /\ Sampled(button).age < Debounce
  /\ button' = Sampled(button)
  /\ NoAction

ButtonPressed ==
  /\ Sampled(button).age = Debounce /\ contact /\ ~button.down
  /\ \E since \in {0, Unset} :
       button' = [Sampled(button) EXCEPT !.down = TRUE, !.held = since,
                                         !.longFired = FALSE]
  /\ pressActs' = 0 /\ UNCHANGED <<led, reported>>

ButtonReleased ==
  /\ Sampled(button).age = Debounce /\ ~contact /\ button.down
  /\ button' = [Sampled(button) EXCEPT !.down = FALSE, !.held = Unset,
                                       !.longFired = FALSE]
  /\ IF ShortReleased(button) THEN Act ELSE NoAction

ButtonHeld ==
  /\ Sampled(button).age = Debounce /\ contact /\ button.down
  /\ IF LongDue(button) THEN button' = LongFired(button) /\ Act
                        ELSE UNCHANGED button /\ NoAction

ButtonPass ==
  /\ ButtonWaits \/ ButtonPressed \/ ButtonReleased \/ ButtonHeld
  /\ UNCHANGED <<contact, rendered>>

---------------------------------------------------------------------------
(* The environment                                                         *)

\* The contact closes, opens and bounces as it likes.
ContactChange ==
  /\ contact' = ~contact
  /\ UNCHANGED <<button, pressActs, ledVars>>

PanelTick ==
  /\ button' = [button EXCEPT !.age = IF @ < Debounce THEN @ + 1 ELSE @,
                   !.held = IF @ # Unset /\ @ < LongPress THEN @ + 1 ELSE @]
  /\ led' = [led EXCEPT !.patternLeft = IF @ > 0 THEN @ - 1 ELSE 0,
                        !.flash = IF @ > 0 THEN @ - 1 ELSE @]
  /\ UNCHANGED <<contact, pressActs, reported, rendered>>

\* millis() wraps some time after the last pulse.
ClockWraps ==
  /\ led.flash = 0
  /\ led' = [led EXCEPT !.flash = Stuck]
  /\ UNCHANGED <<contact, button, pressActs, reported, rendered>>

PanelNext ==
  \/ LedPass
  \/ \E i \in Indicators : ArtAddressIndicator(i)
  \/ WebLocate
  \/ \E m \in BOOLEAN : WebMute(m)
  \/ \E on \in BOOLEAN : WebOverride(on)
  \/ Flash
  \/ \E kind \in {"progress", "success", "failed"} : UpdatePattern(kind)
  \/ ButtonPass
  \/ ContactChange
  \/ PanelTick
  \/ ClockWraps

PanelSpec == PanelInit /\ [][PanelNext]_panelVars

---------------------------------------------------------------------------
(* Properties                                                              *)

\* However the contact bounces and however rarely the loop looks at it, one
\* press executes at most one action, the short or the long one; and the
\* indicator state the node reports is the one its LEDs follow, whoever
\* changed it last.
PressActsOnce ==
  /\ pressActs <= 1
  /\ reported = led.indicator

=============================================================================
