------------------------- MODULE BaglScreensProofs --------------------------
(***************************************************************************)
(* The reviews on devices with two buttons, for any requests: what is on   *)
(* the screens of a review is of the request under review, and there is no *)
(* way to "approve" that does not lead past all of it.                     *)
(***************************************************************************)
EXTENDS BaglScreens, TLAPS

\* The flow on display is a row of screens, and the position is one of them.
PositionInv ==
    /\ flow \in Reviews \cup Menus
    /\ at \in 1 .. Len(Screens(flow))

\* During a review the request in the context, the callback and the texts
\* belong together, and the texts of the screens up to the current one have
\* been on display.
ReviewInv ==
    flow \in Reviews =>
        /\ request.type = flow
        /\ g_validate_callback = flow
        /\ \A t \in TextsOf(flow) : text[t] = request.data
        /\ \A k \in 1 .. at :
               Screens(flow)[k] \in Texts => <<Screens(flow)[k], request.data>> \in seen

UiInv == PositionInv /\ ReviewInv

-----------------------------------------------------------------------------
(* The flows *)

\* The review of an address (bagl_display.c:112).
LEMMA PubkeyFlow ==
    /\ DOMAIN Screens("pubkey") = 1 .. 5 /\ Len(Screens("pubkey")) = 5
    /\ Screens("pubkey")[1] = "confirm" /\ Screens("pubkey")[2] = "path"
    /\ Screens("pubkey")[3] = "address" /\ Screens("pubkey")[4] = "approve"
    /\ Screens("pubkey")[5] = "reject"
<1>1. Screens("pubkey") = <<"confirm", "path", "address", "approve", "reject">>
  BY DEF Screens
<1>2. QED
  BY <1>1

\* The review of a transaction (bagl_display.c:176).
LEMMA TransactionFlow ==
    /\ DOMAIN Screens("transaction") = 1 .. 6 /\ Len(Screens("transaction")) = 6
    /\ Screens("transaction")[1] = "confirm" /\ Screens("transaction")[2] = "address"
    /\ Screens("transaction")[3] = "amount" /\ Screens("transaction")[4] = "fees"
    /\ Screens("transaction")[5] = "approve" /\ Screens("transaction")[6] = "reject"
<1>1. Screens("transaction") = <<"confirm", "address", "amount", "fees", "approve", "reject">>
  BY DEF Screens
<1>2. QED
  BY <1>1

\* The review of a message (bagl_display.c:249).
LEMMA MessageFlow ==
    /\ DOMAIN Screens("message") = 1 .. 5 /\ Len(Screens("message")) = 5
    /\ Screens("message")[1] = "confirm" /\ Screens("message")[2] = "path"
    /\ Screens("message")[3] = "message" /\ Screens("message")[4] = "approve"
    /\ Screens("message")[5] = "reject"
<1>1. Screens("message") = <<"confirm", "path", "message", "approve", "reject">>
  BY DEF Screens
<1>2. QED
  BY <1>1

\* The main menu (menu_bagl.c:43).
LEMMA MenuFlow ==
    /\ DOMAIN Screens("menu") = 1 .. 4 /\ Len(Screens("menu")) = 4
    /\ Screens("menu")[1] = "ready" /\ Screens("menu")[2] = "version"
    /\ Screens("menu")[3] = "about" /\ Screens("menu")[4] = "exit"
<1>1. Screens("menu") = <<"ready", "version", "about", "exit">>
  BY DEF Screens
<1>2. QED
  BY <1>1

\* The about menu (menu_bagl.c:64).
LEMMA AboutFlow ==
    /\ DOMAIN Screens("about") = 1 .. 2 /\ Len(Screens("about")) = 2
    /\ Screens("about")[1] = "info" /\ Screens("about")[2] = "back"
<1>1. Screens("about") = <<"info", "back">>
  BY DEF Screens
<1>2. QED
  BY <1>1

\* A flow has a first screen.
LEMMA FlowLength ==
    ASSUME NEW f \in Reviews \cup Menus
    PROVE  Len(Screens(f)) \in Nat \ {0} /\ DOMAIN Screens(f) = 1 .. Len(Screens(f))
  BY PubkeyFlow, TransactionFlow, MessageFlow, MenuFlow, AboutFlow DEF Reviews, Menus

\* Only a review has a screen that answers it.
LEMMA MenuScreens ==
    ASSUME NEW f \in Menus, NEW k \in 1 .. Len(Screens(f))
    PROVE  Screens(f)[k] \notin {"approve", "reject"}
  BY MenuFlow, AboutFlow DEF Menus

\* The texts of a review come before the screen that approves it.
LEMMA TextsComeFirst ==
    ASSUME NEW f \in Reviews, NEW k \in 1 .. Len(Screens(f)), Screens(f)[k] = "approve",
           NEW t \in TextsOf(f)
    PROVE  \E j \in 1 .. k : Screens(f)[j] = t
<1>1. PICK j \in 1 .. Len(Screens(f)) : Screens(f)[j] = t /\ t \in Texts
  BY FlowLength DEF TextsOf
<1>2. j <= k
  <2>1. CASE f = "pubkey"
    <3>1. k = 4
      <4>1. k \in 1 .. 5 /\ Screens("pubkey")[k] = "approve"
        BY <2>1, PubkeyFlow, Zenon
      <4>2. k \in {1, 2, 3, 4, 5}
        BY <4>1
      <4>3. k \notin {1, 2, 3, 5}
        BY <4>1, PubkeyFlow
      <4>4. QED
        BY <4>2, <4>3
    <3>2. j # 5
      BY <1>1, <2>1, PubkeyFlow DEF Texts
    <3>3. j \in 1 .. 5
      BY <1>1, <2>1, PubkeyFlow
    <3>4. QED
      BY <3>1, <3>2, <3>3
  <2>2. CASE f = "transaction"
    <3>1. k = 5
      <4>1. k \in 1 .. 6 /\ Screens("transaction")[k] = "approve"
        BY <2>2, TransactionFlow, Zenon
      <4>2. k \in {1, 2, 3, 4, 5, 6}
        BY <4>1
      <4>3. k \notin {1, 2, 3, 4, 6}
        BY <4>1, TransactionFlow
      <4>4. QED
        BY <4>2, <4>3
    <3>2. j # 6
      BY <1>1, <2>2, TransactionFlow DEF Texts
    <3>3. j \in 1 .. 6
      BY <1>1, <2>2, TransactionFlow
    <3>4. QED
      BY <3>1, <3>2, <3>3
  <2>3. CASE f = "message"
    <3>1. k = 4
      <4>1. k \in 1 .. 5 /\ Screens("message")[k] = "approve"
        BY <2>3, MessageFlow, Zenon
      <4>2. k \in {1, 2, 3, 4, 5}
        BY <4>1
      <4>3. k \notin {1, 2, 3, 5}
        BY <4>1, MessageFlow
      <4>4. QED
        BY <4>2, <4>3
    <3>2. j # 5
      BY <1>1, <2>3, MessageFlow DEF Texts
    <3>3. j \in 1 .. 5
      BY <1>1, <2>3, MessageFlow
    <3>4. QED
      BY <3>1, <3>2, <3>3
  <2>4. QED
    BY <2>1, <2>2, <2>3 DEF Reviews
<1>3. QED
  BY <1>1, <1>2, FlowLength

\* A display function formats every text its flow shows.
LEMMA EveryTextIsFormatted ==
    ASSUME NEW f \in Reviews, NEW d, NEW t \in TextsOf(f)
    PROVE  Formatted(f, d, Len(Formats(f)))[t] = d
<1>1. t \in Texts /\ \E j \in 1 .. Len(Screens(f)) : Screens(f)[j] = t
  BY FlowLength DEF TextsOf
<1>2. \E k \in 1 .. Len(Formats(f)) : Formats(f)[k] = t
  <2>1. CASE f = "pubkey"
    <3>1. Formats(f) = <<"path", "address">>
      BY <2>1 DEF Formats
    <3>2. t \in {"path", "address"}
      BY <1>1, <2>1, PubkeyFlow DEF Texts
    <3>3. QED
      BY <3>1, <3>2
  <2>2. CASE f = "transaction"
    <3>1. Formats(f) = <<"amount", "fees", "address">>
      BY <2>2 DEF Formats
    <3>2. t \in {"amount", "fees", "address"}
      BY <1>1, <2>2, TransactionFlow DEF Texts
    <3>3. QED
      BY <3>1, <3>2
  <2>3. CASE f = "message"
    <3>1. Formats(f) = <<"path", "message">>
      BY <2>3 DEF Formats
    <3>2. t \in {"path", "message"}
      BY <1>1, <2>3, MessageFlow DEF Texts
    <3>3. QED
      BY <3>1, <3>2
  <2>4. QED
    BY <2>1, <2>2, <2>3 DEF Reviews
<1>3. QED
  BY <1>1, <1>2 DEF Formatted
-----------------------------------------------------------------------------
(* The invariant *)

\* A menu says nothing of a review.
LEMMA MenuInv ==
    ASSUME NEW f \in Menus, Start(f)
    PROVE  UiInv'
<1>1. flow' \in Menus /\ at' = 1
  BY DEF Start
<1>2. PositionInv'
  BY <1>1, FlowLength DEF PositionInv
<1>3. ReviewInv'
  BY <1>1 DEF ReviewInv, Reviews, Menus
<1>4. QED
  BY <1>2, <1>3 DEF UiInv

\* A display function puts the texts of its request into the buffers before it
\* starts the flow; its first screen shows none of them (ui_display_address,
\* ui_display_transaction, ui_display_message).
LEMMA CommandInv ==
    ASSUME UiInv, NEW f \in Reviews, NEW d \in Data, Command(f, d)
    PROVE  UiInv'
<1>1. CASE Display(f, d)
  <2>1. flow' = f /\ at' = 1 /\ g_validate_callback' = f
        /\ request'.type = f /\ request'.data = d
    BY <1>1 DEF Display, Start, CallbackOf, Command
  <2>2. PositionInv'
    BY <2>1, FlowLength DEF PositionInv
  <2>3. \A t \in TextsOf(f) : text'[t] = d
    BY <1>1, EveryTextIsFormatted DEF Display
  <2>4. Screens(f)[1] \notin Texts
    BY PubkeyFlow, TransactionFlow, MessageFlow DEF Reviews, Texts
  <2>5. ReviewInv'
    BY <2>1, <2>3, <2>4 DEF ReviewInv
  <2>6. QED
    BY <2>2, <2>5 DEF UiInv
<1>2. CASE DisplayFails(f, d)
  <2>1. flow' = flow /\ at' = at /\ flow \in Menus
    BY <1>2 DEF DisplayFails, Command
  <2>2. QED
    BY <2>1 DEF UiInv, PositionInv, ReviewInv, Reviews, Menus
<1>3. QED
  BY <1>1, <1>2 DEF Command

\* A step to the right or to the left: what comes on display is of the request,
\* and a review has no way around its end.
LEMMA MoveInv ==
    ASSUME UiInv, Right \/ Left
    PROVE  UiInv'
<1>1. PICK k \in 1 .. Last : Show(k) /\ (flow \in Reviews => k <= at + 1)
  BY FlowLength DEF UiInv, PositionInv, Right, Left, Last, Loops, Reviews, Menus
<1>2. flow' = flow /\ at' = k /\ text' = text /\ request' = request
      /\ g_validate_callback' = g_validate_callback
  BY <1>1 DEF Show
<1>3. PositionInv'
  BY <1>1, <1>2 DEF UiInv, PositionInv, Last
<1>4. ASSUME flow \in Reviews
      PROVE  \A j \in 1 .. k :
                 Screens(flow)[j] \in Texts => <<Screens(flow)[j], request.data>> \in seen'
  <2> SUFFICES ASSUME NEW j \in 1 .. k, Screens(flow)[j] \in Texts
               PROVE  <<Screens(flow)[j], request.data>> \in seen'
    OBVIOUS
  <2>1. at \in Nat /\ k \in Nat /\ k <= at + 1 /\ k <= Len(Screens(flow))
    BY <1>1, <1>4, FlowLength DEF UiInv, PositionInv, Last
  <2>2. CASE j <= at
    <3>1. <<Screens(flow)[j], request.data>> \in seen
      BY <1>4, <2>1, <2>2 DEF UiInv, ReviewInv
    <3>2. QED
      BY <1>1, <3>1 DEF Show
  <2>3. CASE j > at
    <3>1. j = k
      BY <2>1, <2>3
    <3>2. Screens(flow)[j] \in TextsOf(flow)
      BY <1>4, <2>1, FlowLength DEF TextsOf
    <3>3. text[Screens(flow)[j]] = request.data
      BY <1>4, <3>2 DEF UiInv, ReviewInv
    <3>4. QED
      BY <1>1, <3>1, <3>3 DEF Show
  <2>4. QED
    BY <2>1, <2>2, <2>3
<1>5. ReviewInv'
  BY <1>2, <1>4 DEF UiInv, ReviewInv
<1>6. QED
  BY <1>3, <1>5 DEF UiInv

\* Every step preserves the invariant.
LEMMA NextUiInv == UiInv /\ [UiNext]_uivars => UiInv'
<1> SUFFICES ASSUME UiInv, [UiNext]_uivars PROVE UiInv'
  OBVIOUS
<1>1. CASE \E f \in Reviews, d \in Data : Command(f, d)
  BY <1>1, CommandInv
<1>2. CASE Right \/ Left
  BY <1>2, MoveInv
<1>3. CASE BothButtons
  <2>1. \E f \in Menus : Start(f)
    BY <1>3 DEF BothButtons, Validate, Open, Quit, Menus
  <2>2. QED
    BY <2>1, MenuInv
<1>4. CASE UNCHANGED uivars
  BY <1>4 DEF UiInv, PositionInv, ReviewInv, uivars
<1>5. QED
  BY <1>1, <1>2, <1>3, <1>4 DEF UiNext

\* During a review the request, the callback and the texts belong together, and
\* what lies before the current screen has been on display (bagl_display.c:48-53).
THEOREM ReviewsAreOfTheRequest == UiSpec => []UiInv
<1>1. AtStart => UiInv
  BY MenuFlow DEF AtStart, UiInv, PositionInv, ReviewInv, Reviews, Menus
<1>2. QED
  BY <1>1, NextUiInv, PTL DEF UiSpec

-----------------------------------------------------------------------------
(* The properties *)

\* No screen of a review shows what another request left in the buffers
\* (bagl_display.c:49-53).
THEOREM TextIsNeverStale == UiSpec => []NoStaleText
<1>1. UiInv => NoStaleText
  <2> SUFFICES ASSUME UiInv, flow \in Reviews, Screen \in Texts
               PROVE  flow = request.type /\ text[Screen] = request.data
    BY DEF NoStaleText
  <2>1. Screen \in TextsOf(flow)
    BY FlowLength DEF UiInv, PositionInv, Screen, TextsOf
  <2>2. QED
    BY <2>1 DEF UiInv, ReviewInv
<1>2. QED
  BY <1>1, ReviewsAreOfTheRequest, PTL

\* Only the screens "approve" and "reject" of a review change the answer.
LEMMA AnswerCases ==
    ASSUME UiInv, UiNext
    PROVE  \/ UNCHANGED answer
           \/ answer' = NoAnswer
           \/ flow \in Reviews /\ Screen = "approve" /\ Validate(TRUE)
           \/ flow \in Reviews /\ Validate(FALSE)
<1>1. CASE \E f \in Reviews, d \in Data : Command(f, d)
  BY <1>1 DEF Command
<1>2. CASE Right \/ Left
  BY <1>2 DEF Right, Left, Show
<1>3. CASE BothButtons
  <2>1. CASE Screen \in {"approve", "reject"}
    <3>1. flow \in Reviews
      BY <2>1, MenuScreens DEF UiInv, PositionInv, Screen
    <3>2. QED
      BY <1>3, <2>1, <3>1 DEF BothButtons
  <2>2. CASE Screen \notin {"approve", "reject"}
    BY <1>3, <2>2 DEF BothButtons, Open, Quit
  <2>3. QED
    BY <2>1, <2>2
<1>4. QED
  BY <1>1, <1>2, <1>3 DEF UiNext

\* An approval comes after every text of the request has been on display
\* (bagl_display.c: the order of the screens, and no FLOW_LOOP).
THEOREM ApprovalComesAfterReading == UiSpec => []ApprovalSawEverything
<1>1. AtStart => ApprovalSawEverything
  BY DEF AtStart, NoAnswer, ApprovalSawEverything
<1>2. ApprovalSawEverything /\ UiInv /\ [UiNext]_uivars => ApprovalSawEverything'
  <2> SUFFICES ASSUME ApprovalSawEverything, UiInv, [UiNext]_uivars
               PROVE  ApprovalSawEverything'
    OBVIOUS
  <2>1. CASE UNCHANGED answer
    BY <2>1 DEF ApprovalSawEverything
  <2>2. CASE answer' = NoAnswer \/ Validate(FALSE)
    BY <2>2 DEF ApprovalSawEverything, NoAnswer, Validate
  <2>3. CASE flow \in Reviews /\ Screen = "approve" /\ Validate(TRUE)
    <3>1. answer'.request = request /\ answer'.seen = seen
      BY <2>3 DEF Validate
    <3>2. at \in 1 .. Len(Screens(flow)) /\ Screens(flow)[at] = "approve"
      BY <2>3 DEF UiInv, PositionInv, Screen
    <3>3. request.type = flow
      BY <2>3 DEF UiInv, ReviewInv
    <3>4. ASSUME NEW t \in TextsOf(flow)
          PROVE  <<t, request.data>> \in seen
      <4>1. PICK j \in 1 .. at : Screens(flow)[j] = t
        BY <2>3, <3>2, TextsComeFirst
      <4>2. t \in Texts
        BY DEF TextsOf
      <4>3. QED
        BY <2>3, <4>1, <4>2 DEF UiInv, ReviewInv
    <3>5. QED
      BY <3>1, <3>3, <3>4 DEF ApprovalSawEverything
  <2>4. QED
    BY <2>1, <2>2, <2>3, AnswerCases DEF uivars
<1>3. QED
  BY <1>1, <1>2, ReviewsAreOfTheRequest, PTL DEF UiSpec

\* An answer goes to the handler of the request it was given for
\* (bagl_display.c:48, one callback for three reviews).
THEOREM AnswersGoHome == UiSpec => []AnswerGoesToItsRequest
<1>1. AtStart => AnswerGoesToItsRequest
  BY DEF AtStart, AnswerGoesToItsRequest
<1>2. AnswerGoesToItsRequest /\ UiInv /\ [UiNext]_uivars => AnswerGoesToItsRequest'
  <2> SUFFICES ASSUME AnswerGoesToItsRequest, UiInv, [UiNext]_uivars
               PROVE  AnswerGoesToItsRequest'
    OBVIOUS
  <2>1. CASE UNCHANGED answer \/ answer' = NoAnswer
    BY <2>1 DEF AnswerGoesToItsRequest
  <2>2. ASSUME NEW choice, flow \in Reviews, Validate(choice)
        PROVE  AnswerGoesToItsRequest'
    <3>1. answer'.to = g_validate_callback /\ answer'.request = request
      BY <2>2 DEF Validate
    <3>2. QED
      BY <2>2, <3>1 DEF UiInv, ReviewInv, AnswerGoesToItsRequest
  <2>3. QED
    BY <2>1, <2>2, AnswerCases DEF uivars
<1>3. QED
  BY <1>1, <1>2, ReviewsAreOfTheRequest, PTL DEF UiSpec
=============================================================================
