---------------------------- MODULE BaglScreens -----------------------------
(***************************************************************************)
(* The user interface of devices with two buttons: ui/bagl_display.c and   *)
(* ui/menu_bagl.c.  A flow is a row of screens; left and right move along  *)
(* it, both buttons together run the callback of the screen.  The flow     *)
(* engine (ux_flow_init, the buttons) is the SDK's.                        *)
(*                                                                         *)
(* The text buffers and g_validate_callback are shared by all the reviews. *)
(* A text is known by the request it was formatted for.                    *)
(***************************************************************************)
EXTENDS Integers, Sequences

CONSTANTS Data      \* what requests of one type differ in

Blank == "blank"
ASSUME DataAssumption == Data # {} /\ Blank \notin Data

VARIABLES
    flow,                   \* the flow on display
    at,                     \* the screen of the flow, from 1
    text,                   \* g_bip32_path, g_address, g_amount, g_fees, g_message
    g_validate_callback,    \* the review the answer is handed to
    request,                \* the request in G_context
    seen,                   \* history: the texts on display since the review began
    answer                  \* history: the last answer and where it went

uivars == <<flow, at, text, g_validate_callback, request, seen, answer>>

Reviews == {"pubkey", "transaction", "message"}
Menus   == {"menu", "about"}

\* The UX_FLOWs.
Screens(f) ==
    CASE f = "pubkey"      -> <<"confirm", "path", "address", "approve", "reject">>
      [] f = "transaction" -> <<"confirm", "address", "amount", "fees", "approve", "reject">>
      [] f = "message"     -> <<"confirm", "path", "message", "approve", "reject">>
      [] f = "menu"        -> <<"ready", "version", "about", "exit">>
      [] f = "about"       -> <<"info", "back">>

\* The flows that end in FLOW_LOOP.
Loops_Everywhere(f) == TRUE
Loops(f) == f \in Menus

\* The buffers, each under the name of the screen that shows it.
Texts == {"path", "address", "amount", "fees", "message"}
TextsOf(f) == Texts \cap {Screens(f)[k] : k \in DOMAIN Screens(f)}

\* The order in which a display function formats its texts.
Formats(f) ==
    CASE f = "pubkey"      -> <<"path", "address">>
      [] f = "transaction" -> <<"amount", "fees", "address">>
      [] f = "message"     -> <<"path", "message">>

-----------------------------------------------------------------------------
NoRequest == [type |-> "none"]
NoAnswer  == [choice |-> FALSE, to |-> "none", request |-> NoRequest, seen |-> {}]

\* ux_flow_init(0, f, NULL)
Start(f) == flow' = f /\ at' = 1

\* The buffers after the first n texts were formatted for d.
Formatted_PathKept(f, d, n) ==
    [t \in Texts |-> IF t # "path" /\ \E k \in 1 .. n : Formats(f)[k] = t
                     THEN d ELSE text[t]]

Formatted(f, d, n) ==
    [t \in Texts |-> IF \E k \in 1 .. n : Formats(f)[k] = t THEN d ELSE text[t]]

CallbackOf_Inherited(f) == IF f = "message" THEN g_validate_callback ELSE f
CallbackOf(f) == f

\* ui_display_address, ui_display_transaction and ui_display_message.  The
\* state they check first has just been set by the handler that calls them.
Display(f, d) ==
    /\ text' = Formatted(f, d, Len(Formats(f)))
    /\ g_validate_callback' = CallbackOf(f)
    /\ seen' = {}
    /\ Start(f)

\* A text that cannot be formatted is left cleared, and the command is answered
\* with an error.  The address of a payment always can be.
DisplayFails(f, d) ==
    /\ \E n \in 1 .. Len(Formats(f)) :
        /\ f = "transaction" => Formats(f)[n] # "address"
        /\ f = "message" => Formats(f)[n] # "message"
        /\ text' = [Formatted(f, d, n - 1) EXCEPT ![Formats(f)[n]] = Blank]
    /\ UNCHANGED <<flow, at, g_validate_callback, seen>>

\* A command is received only when no review is pending.
Command(f, d) ==
    /\ flow \in Menus
    /\ request' = [type |-> f, data |-> d]
    /\ Display(f, d) \/ DisplayFails(f, d)
    /\ UNCHANGED answer

-----------------------------------------------------------------------------
Screen == Screens(flow)[at]
Last   == Len(Screens(flow))

Show(k) ==
    /\ at' = k
    /\ seen' = IF Screens(flow)[k] \in Texts
               THEN seen \cup {<<Screens(flow)[k], text[Screens(flow)[k]]>>} ELSE seen
    /\ UNCHANGED <<flow, text, g_validate_callback, request, answer>>

Right == \/ at < Last /\ Show(at + 1)
         \/ at = Last /\ Loops(flow) /\ Show(1)
Left  == \/ at > 1 /\ Show(at - 1)
         \/ at = 1 /\ Loops(flow) /\ Show(Last)

\* ui_action_validate_...: the answer is handed over, and the menu comes back.
Validate(choice) ==
    /\ answer' = [choice |-> choice, to |-> g_validate_callback, request |-> request,
                  seen |-> seen]
    /\ Start("menu")
    /\ UNCHANGED <<text, g_validate_callback, request, seen>>

Open(f) == Start(f) /\ UNCHANGED <<text, g_validate_callback, request, seen, answer>>

AtStart ==
    /\ flow = "menu" /\ at = 1
    /\ text = [t \in Texts |-> Blank]
    /\ g_validate_callback = "none"
    /\ request = NoRequest
    /\ seen = {}
    /\ answer = NoAnswer

\* os_sched_exit; the application is started again.
Quit ==
    /\ Start("menu")
    /\ text' = [t \in Texts |-> Blank]
    /\ g_validate_callback' = "none"
    /\ request' = NoRequest
    /\ seen' = {}
    /\ answer' = NoAnswer

BothButtons ==
    \/ Screen = "approve" /\ Validate(TRUE)
    \/ Screen = "reject"  /\ Validate(FALSE)
    \/ Screen = "about"   /\ Open("about")
    \/ Screen = "back"    /\ Open("menu")
    \/ Screen = "exit"    /\ Quit

UiNext ==
    \/ \E f \in Reviews, d \in Data : Command(f, d)
    \/ Right \/ Left \/ BothButtons

UiSpec == AtStart /\ [][UiNext]_uivars

-----------------------------------------------------------------------------
\* The user cannot approve without having had every text of the review on
\* display, and each of them was the text of the request (bagl_display.c: the
\* order of the screens, and no FLOW_LOOP).
ApprovalSawEverything ==
    answer.choice =>
        {<<t, answer.request.data>> : t \in TextsOf(answer.request.type)} \subseteq answer.seen

\* An answer goes to the handler of the request it was given for: the callback
\* is one variable for three reviews (bagl_display.c:48).
AnswerGoesToItsRequest ==
    answer # NoAnswer => answer.to = answer.request.type

\* No screen of a review shows what another request left in the buffers
\* (bagl_display.c:49-53), even after a display function failed half-way.
NoStaleText ==
    flow \in Reviews /\ Screen \in Texts =>
        flow = request.type /\ text[Screen] = request.data
=============================================================================
