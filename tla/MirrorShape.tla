---------------------------- MODULE MirrorShape -----------------------------
\* The shape and place of the mirrored screen (src/mirrorshape.cpp and the policy
\* for it in src/mainwindow.cpp).  The window belongs to GStreamer's sink and
\* lives on a thread of its own; the application adopts it, puts a window
\* procedure of its own before the sink's, and moves it with SetWindowPos.  The
\* picture's size and the title-bar menu reach the GUI thread as queued calls.
EXTENDS Integers, Sequences, FiniteSets, FiniteSetsExt

CONSTANTS
    Pictures,       \* sizes the engine reports: <<width, height>>
    Monitors,       \* the work areas there are
    OldMonitors,    \* work areas that were there when a place was saved
    Target,         \* the work area of target_monitor, or <<>>
    Frame,          \* frame and caption of a window: <<width, height>>
    Least,          \* 160 x 90: the client area WM_SIZING leaves at least
    Places,         \* where the sink puts a new window, and what users save
    Drags,          \* the edges a user drags and how far: <<edge, dx, dy>>
    MaxWindows,     \* bound: the windows the sink opens
    MaxCalls,       \* bound: calls queued for the GUI thread
    MaxMoves,       \* bound: moves the window's thread lags behind
    MaxDrags        \* bound: the user's drags

VARIABLES
    pane,           \* the sink's window: [id, rect, state], id 0 when there is none
    held,           \* m_mirrorHwnd: the window adopted, or 0
    hooked,         \* the window has MirrorWindowProc
    aspect,         \* g_aspect: a picture's size, or <<>>
    lockFlag,       \* g_locked, which the window's thread reads
    lockSetting,    \* the setting mirror_lock_aspect
    videoSize,      \* m_videoSize, or <<>>
    calls,          \* the calls queued for the GUI thread
    noticed,        \* a window event is on its way to the GUI thread
    moves,          \* the asynchronous SetWindowPos on their way to the window
    savedRect,      \* the remembered rectangle, or <<>>
    hunting,        \* m_running: the window is looked for
    opened,         \* windows opened so far
    drags,          \* drags so far
    skipped         \* why the last fit did nothing: "no" (it did), "state" or "moving" (history)

shapeVars == <<pane, held, hooked, aspect, lockFlag, lockSetting, videoSize, calls, noticed,
               moves, savedRect, hunting, opened, drags, skipped>>

\* Rectangles: <<left, top, right, bottom>>
Wide(r) == r[3] - r[1]
High(r) == r[4] - r[2]
ClientWidth(r) == Wide(r) - Frame[1]
ClientHeight(r) == High(r) - Frame[2]

\* std::lround of n / d for positive numbers
Rounded(n, d) == (2 * n + d) \div (2 * d)
Clamped(v, low, high) == Max({low, Min({v, high})})

Overlap(r, s) ==
    Max({0, Min({r[3], s[3]}) - Max({r[1], s[1]})}) * Max({0, Min({r[4], s[4]}) - Max({r[2], s[2]})})

\* MonitorFromWindow: the monitor the window covers most of
Nearest(r) == CHOOSE m \in Monitors : \A n \in Monitors : Overlap(r, n) <= Overlap(r, m)

\* A place a window may be in: it has a client area, if an empty one.
Rectangles == Int \X Int \X Int \X Int
IsWindow(r) == r \in Rectangles /\ ClientWidth(r) >= 0 /\ ClientHeight(r) >= 0

ASSUME ShapeAssumption ==
    /\ MaxWindows \in Nat /\ MaxCalls \in Nat /\ MaxMoves \in Nat /\ MaxDrags \in Nat
    /\ Pictures \subseteq (Nat \ {0}) \X (Nat \ {0})
    /\ Frame \in Nat \X Nat /\ Least \in Nat \X Nat
    /\ Monitors # {} /\ \A r \in Monitors \union OldMonitors \union Places : IsWindow(r)
    /\ \A m \in Monitors : ClientWidth(m) > 0 /\ ClientHeight(m) > 0
    /\ \A d \in Drags : d[2] \in Int /\ d[3] \in Int

-----------------------------------------------------------------------------
\* mirrorshape.cpp

\* The client area MirrorShape::fit aims at: the height stays, unless the monitor
\* is too small for that height or for the width that goes with it.
\* Mutant: only the width is compared with the monitor's.
FittedWide(height, picture, work) ==
    IF height * picture[1] <= ClientWidth(work) * picture[2]
    THEN <<Rounded(height * picture[1], picture[2]), height>>
    ELSE <<ClientWidth(work), Rounded(ClientWidth(work) * picture[2], picture[1])>>

FittedSize(height, picture, work) ==
    IF height <= ClientHeight(work) /\ height * picture[1] <= ClientWidth(work) * picture[2]
    THEN <<Rounded(height * picture[1], picture[2]), height>>
    ELSE IF ClientWidth(work) * picture[2] <= ClientHeight(work) * picture[1]
         THEN <<ClientWidth(work), Rounded(ClientWidth(work) * picture[2], picture[1])>>
         ELSE <<Rounded(ClientHeight(work) * picture[1], picture[2]), ClientHeight(work)>>

\* Around the old centre, but on the monitor
Fitted(r, picture) ==
    LET work == Nearest(r)
        size == FittedSize(ClientHeight(r), picture, work)
        width == size[1] + Frame[1]
        height == size[2] + Frame[2]
        x == Clamped((r[1] + r[3]) \div 2 - width \div 2, work[1], Max({work[1], work[3] - width}))
        y == Clamped((r[2] + r[4]) \div 2 - height \div 2, work[2], Max({work[2], work[4] - height}))
    IN <<x, y, x + width, y + height>>

MovesLeft(edge) == edge \in {"left", "topleft", "bottomleft"}
MovesTop(edge) == edge \in {"top", "topleft", "topright"}

\* constrainSizingRect: the edge that is dragged leads, at a corner the larger
\* change; the edges opposite stay.
Constrained(edge, r, picture) ==
    LET w == Max({Least[1], ClientWidth(r)})
        h == Max({Least[2], ClientHeight(r)})
        fromHeight == Rounded(h * picture[1], picture[2])
        fromWidth == Rounded(w * picture[2], picture[1])
        size == IF edge \in {"left", "right"} THEN <<w, fromWidth>>
                ELSE IF edge \in {"top", "bottom"} \/ fromHeight >= w THEN <<fromHeight, h>>
                ELSE <<w, fromWidth>>
        width == size[1] + Frame[1]
        height == size[2] + Frame[2]
    IN <<IF MovesLeft(edge) THEN r[3] - width ELSE r[1],
         IF MovesTop(edge) THEN r[4] - height ELSE r[2],
         IF MovesLeft(edge) THEN r[3] ELSE r[1] + width,
         IF MovesTop(edge) THEN r[4] ELSE r[2] + height>>

IsAlive(id) == id # 0 /\ id = pane.id

\* MirrorShape::fit: nothing is done to a window minimised, maximised or
\* fullscreen.  It is judged by where it is, even if it is about to move.
FitShape(rect, size) ==
    /\ skipped' = IF pane.state # "normal" THEN "state" ELSE IF moves # <<>> THEN "moving" ELSE "no"
    /\ moves' = IF pane.state = "normal" /\ Fitted(rect, size) # rect
                THEN Append(moves, Fitted(rect, size)) ELSE moves

\* fitMirrorWindowToVideo, with the values the handler has just stored
Fit(window, rect, size, locked) ==
    IF IsAlive(window) /\ size # <<>> /\ locked THEN FitShape(rect, size)
    ELSE UNCHANGED <<moves, skipped>>

\* MirrorShape::install and release: the procedure goes before the sink's and
\* comes off again, with the shape it kept to.
Hook ==
    /\ hooked' = TRUE
    /\ lockFlag' = lockSetting

LetGo ==
    /\ hooked' = FALSE
    /\ aspect' = <<>>

\* MirrorShape::setLocked
SetLocked(locked) == lockFlag' = locked

-----------------------------------------------------------------------------
\* The GUI thread

\* onVideoSizeChanged; the client repeats a size, which changes nothing
OnVideoSizeChanged(size) ==
    /\ videoSize' = size
    /\ aspect' = IF size = videoSize THEN aspect ELSE size
    /\ IF size = videoSize THEN UNCHANGED <<moves, skipped>> ELSE Fit(held, pane.rect, size, lockSetting)
    /\ UNCHANGED <<lockFlag, lockSetting>>

\* setMirrorAspectLock: locking removes any bars straight away.
SetMirrorAspectLock(locked) ==
    /\ lockSetting' = locked
    /\ SetLocked(locked)
    /\ Fit(held, pane.rect, videoSize, locked)
    /\ UNCHANGED <<videoSize, aspect>>

\* A queued call
Dispatch ==
    /\ calls # <<>> /\ Len(moves) < MaxMoves
    /\ IF calls[1][1] = "size" THEN OnVideoSizeChanged(calls[1][2]) ELSE SetMirrorAspectLock(calls[1][2])
    /\ calls' = Tail(calls)
    /\ UNCHANGED <<pane, held, hooked, noticed, savedRect, hunting, opened, drags>>

\* The switch on the Window page
SwitchLock ==
    /\ Len(moves) < MaxMoves
    /\ SetMirrorAspectLock(~lockSetting)
    /\ UNCHANGED <<pane, held, hooked, calls, noticed, savedRect, hunting, opened, drags>>

\* applyMirrorWindowPreferences: the remembered place if it is still on a screen,
\* else the monitor chosen
Preferred(r) ==
    IF savedRect # <<>> /\ (\E m \in Monitors : Overlap(savedRect, m) > 0) THEN savedRect
    ELSE IF Target \in Monitors
         THEN <<Target[1] + 1, Target[2] + 1, Target[1] + 1 + Wide(r), Target[2] + 1 + High(r)>>
         ELSE r

\* installMirrorWindowControls
InstallControls(size, known) ==
    /\ Hook
    /\ aspect' = IF size # <<>> THEN size ELSE known

\* tryAdoptMirrorWindow, once it has found the window: it is placed, its
\* procedure is installed with the setting's lock, and it is fitted
Adopt(size, known) ==
    /\ held' = pane.id
    /\ InstallControls(size, known)
    /\ pane' = [pane EXCEPT !.rect = Preferred(@)]
    /\ Fit(pane.id, Preferred(pane.rect), size, lockSetting)
    /\ videoSize' = size
    /\ UNCHANGED <<calls, lockSetting, savedRect, hunting, opened, drags>>

\* The poll, which goes on until a window is adopted
Poll ==
    /\ hunting /\ held = 0 /\ pane.id # 0
    /\ Adopt(videoSize, aspect)
    /\ UNCHANGED noticed

\* notifyMirrorWindowEvent: a window that has gone is forgotten, with its size
\* and its aspect, before another one is looked for
Notify ==
    /\ noticed
    /\ noticed' = FALSE
    /\ LET isGone == held # 0 /\ ~IsAlive(held)
           size == IF isGone THEN <<>> ELSE videoSize
           known == IF isGone THEN <<>> ELSE aspect
       IN IF (isGone \/ held = 0) /\ pane.id # 0 /\ hunting
          THEN Adopt(size, known)
          ELSE /\ held' = IF isGone THEN 0 ELSE held
               /\ videoSize' = size
               /\ aspect' = known
               /\ UNCHANGED <<pane, hooked, lockFlag, lockSetting, calls, moves, savedRect, hunting,
                              opened, drags, skipped>>

\* The window's place is sampled, while it is neither minimised nor maximised
Sampled == IF IsAlive(held) /\ pane.state \notin {"iconic", "zoomed"} THEN pane.rect ELSE savedRect

RememberGeometry ==
    /\ IsAlive(held)
    /\ savedRect' = Sampled
    /\ UNCHANGED <<pane, held, hooked, aspect, lockFlag, lockSetting, videoSize, calls, noticed, moves,
                   hunting, opened, drags, skipped>>

\* forgetMirrorWindow, after a last sample
ForgetWindow ==
    /\ savedRect' = Sampled
    /\ LetGo
    /\ held' = 0
    /\ videoSize' = <<>>

\* stopServer: the hook goes, and the window is forgotten
StopHunting ==
    /\ hunting
    /\ hunting' = FALSE
    /\ noticed' = FALSE
    /\ ForgetWindow
    /\ UNCHANGED <<pane, lockFlag, lockSetting, calls, moves, opened, drags, skipped>>

\* onAirplayStarted: the event hook and the poll; the old window went with the
\* engine
StartHunting ==
    /\ ~hunting /\ pane.id = 0
    /\ hunting' = TRUE
    /\ UNCHANGED <<pane, held, hooked, aspect, lockFlag, lockSetting, videoSize, calls, noticed, moves,
                   savedRect, opened, drags, skipped>>

-----------------------------------------------------------------------------
\* The engine and the window's own thread

OpenPane ==
    /\ hunting /\ pane.id = 0 /\ opened < MaxWindows
    /\ \E r \in Places : pane' = [id |-> opened + 1, rect |-> r, state |-> "normal"]
    /\ opened' = opened + 1
    /\ drags' = drags
    /\ hooked' = FALSE
    /\ noticed' = TRUE
    /\ skipped' = "no"
    /\ UNCHANGED <<held, aspect, lockFlag, lockSetting, videoSize, calls, moves, savedRect, hunting>>

ClosePane ==
    /\ pane.id # 0
    /\ pane' = [pane EXCEPT !.id = 0]
    /\ hooked' = FALSE
    /\ moves' = <<>>
    /\ noticed' = hunting
    /\ UNCHANGED <<held, aspect, lockFlag, lockSetting, videoSize, calls, savedRect, hunting, opened, drags, skipped>>

ReportSize ==
    /\ hunting /\ Len(calls) < MaxCalls
    /\ \E p \in Pictures : calls' = Append(calls, <<"size", p>>)
    /\ UNCHANGED <<pane, held, hooked, aspect, lockFlag, lockSetting, videoSize, noticed, moves, savedRect,
                   hunting, opened, drags, skipped>>

\* What was posted to the window is handled before the user's input is
ApplyMove ==
    /\ moves # <<>>
    /\ pane' = [pane EXCEPT !.rect = moves[1]]
    /\ moves' = Tail(moves)
    /\ UNCHANGED <<held, hooked, aspect, lockFlag, lockSetting, videoSize, calls, noticed, savedRect,
                   hunting, opened, drags, skipped>>

TakesInput == pane.id # 0 /\ moves = <<>>

\* The title-bar menu flips the lock at once and tells the GUI thread
MenuToggle ==
    /\ TakesInput /\ hooked /\ Len(calls) < MaxCalls
    /\ lockFlag' = ~lockFlag
    /\ calls' = Append(calls, <<"lock", ~lockFlag>>)
    /\ UNCHANGED <<pane, held, hooked, aspect, lockSetting, videoSize, noticed, moves, savedRect, hunting,
                   opened, drags, skipped>>

Dragged(r, d) ==
    <<IF MovesLeft(d[1]) THEN r[1] + d[2] ELSE r[1],
      IF MovesTop(d[1]) THEN r[2] + d[3] ELSE r[2],
      IF MovesLeft(d[1]) \/ d[1] \in {"top", "bottom"} THEN r[3] ELSE r[3] + d[2],
      IF MovesTop(d[1]) \/ d[1] \in {"left", "right"} THEN r[4] ELSE r[4] + d[3]>>

\* WM_SIZING; bounded to windows that stay within one monitor
DragEdge ==
    /\ TakesInput /\ pane.state = "normal" /\ drags < MaxDrags
    /\ drags' = drags + 1
    /\ \E d \in Drags :
         LET r == Dragged(pane.rect, d)
             s == IF hooked /\ lockFlag /\ aspect # <<>> THEN Constrained(d[1], r, aspect) ELSE r
         IN /\ ClientWidth(r) > 0 /\ ClientHeight(r) > 0
            /\ \E m \in Monitors : Overlap(s, m) = Wide(s) * High(s)
            /\ pane' = [pane EXCEPT !.rect = s]
    /\ UNCHANGED <<held, hooked, aspect, lockFlag, lockSetting, videoSize, calls, noticed, moves, savedRect,
                   hunting, opened, skipped>>

\* The user minimises, maximises or restores the window, or Alt+Enter
ChangeState ==
    /\ TakesInput
    /\ \E s \in {"normal", "zoomed", "full"} \ {pane.state} :
         /\ "normal" \in {s, pane.state}
         /\ pane' = [pane EXCEPT !.state = s]
    /\ UNCHANGED <<held, hooked, aspect, lockFlag, lockSetting, videoSize, calls, noticed, moves, savedRect,
                   hunting, opened, drags, skipped>>

ShapeInit ==
    /\ pane = [id |-> 0, rect |-> <<0, 0, 0, 0>>, state |-> "normal"]
    /\ held = 0
    /\ hooked = FALSE
    /\ aspect = <<>>
    /\ lockFlag = TRUE
    /\ lockSetting \in BOOLEAN
    /\ videoSize = <<>>
    /\ calls = <<>>
    /\ noticed = FALSE
    /\ moves = <<>>
    /\ savedRect \in {<<>>} \union OldMonitors
    /\ hunting = FALSE
    /\ opened = 0
    /\ drags = 0
    /\ skipped = "no"

ShapeNext ==
    \/ Dispatch \/ SwitchLock \/ Poll \/ Notify \/ RememberGeometry \/ StopHunting \/ StartHunting
    \/ OpenPane \/ ClosePane \/ ReportSize \/ ApplyMove \/ MenuToggle \/ DragEdge \/ ChangeState

ShapeSpec == ShapeInit /\ [][ShapeNext]_shapeVars

-----------------------------------------------------------------------------
QueuedCalls == ({"size"} \X Pictures) \union ({"lock"} \X BOOLEAN)

ShapeTypeOK ==
    /\ pane \in [id : 0 .. opened, rect : Rectangles, state : {"normal", "iconic", "zoomed", "full"}]
    /\ held \in 0 .. opened /\ opened \in 0 .. MaxWindows /\ drags \in 0 .. MaxDrags
    /\ hooked \in BOOLEAN /\ lockFlag \in BOOLEAN /\ lockSetting \in BOOLEAN
    /\ noticed \in BOOLEAN /\ hunting \in BOOLEAN
    /\ aspect \in Pictures \union {<<>>} /\ videoSize \in Pictures \union {<<>>}
    /\ calls \in Seq(QueuedCalls)
    /\ moves \in Seq(Rectangles)
    /\ savedRect \in Rectangles \union {<<>>}
    /\ skipped \in {"no", "state", "moving"}

Settled == calls = <<>> /\ ~noticed /\ moves = <<>> /\ IsAlive(held)

\* A client area has a picture's shape, up to the rounding of one of its sides
HasShape(r, picture) ==
    LET off == ClientWidth(r) * picture[2] - ClientHeight(r) * picture[1]
    IN 2 * (IF off < 0 THEN -off ELSE off) <= Max({picture[1], picture[2]})

\* The lock the window's thread reads, the one in the settings and, while a
\* window is adopted, the picture's size agree once everything queued is done.
LockAgrees ==
    Settled => /\ hooked /\ lockFlag = lockSetting
               /\ videoSize # <<>> => aspect = videoSize

\* Whatever order sizes, menu, switch, drags and windows come in: a locked window
\* has the shape of the picture, unless the picture last changed while the window
\* was maximised or fullscreen, or was still to be moved for an older one.
ShapeIsKept ==
    (Settled /\ lockFlag /\ videoSize # <<>> /\ skipped = "no" /\ pane.state = "normal")
        => HasShape(pane.rect, videoSize)

\* What the Window page says of the lock ("sizes the mirrored screen to the
\* device's picture, including when it rotates, so there are no black bars"),
\* for a window in its normal state: a rotation back while the window is still to
\* be moved for the first one finds the old place right, and the bars stay.
NoBarsWhenItRotates ==
    (Settled /\ lockFlag /\ videoSize # <<>> /\ skipped # "state" /\ pane.state = "normal")
        => HasShape(pane.rect, videoSize)

\* Nothing moves the window off its monitor: what a fit asks for lies on one.
StaysOnMonitor ==
    \A i \in 1..Len(moves) :
        \E m \in Monitors : Overlap(moves[i], m) = Wide(moves[i]) * High(moves[i])

MirrorIsShaped == ShapeTypeOK /\ LockAgrees /\ ShapeIsKept /\ StaysOnMonitor

=============================================================================
