------------------------------ MODULE WebAdmin ------------------------------
(***************************************************************************)
(* The web server's own state (web.cpp): the login and its throttle, the   *)
(* uploads of firmware, file system and configuration, and the scheduled   *)
(* restart, in normal and in recovery mode.                                *)
(*                                                                         *)
(* A request is served to its end inside one updateWeb(); an upload calls  *)
(* back for its start, each chunk and its end, and then the handler that   *)
(* answers.  The updater and the file system belong to the platform: any   *)
(* call of them may fail.  Sizes are in chunks, times in ticks.            *)
(***************************************************************************)
EXTENDS Naturals

CONSTANTS
    FlashSize,        \* getMaxFirmwareUpdateSize()
    FsImageSize,      \* FW_LITTLEFS_IMAGE_SIZE
    ConfigLimit,      \* MAX_CONFIG_UPLOAD_SIZE
    IdleTimeout,      \* AUTH_SESSION_IDLE_TIMEOUT_MS
    FailureWindow,    \* AUTH_FAILURE_WINDOW_MS
    FailureLimit,     \* AUTH_FAILURE_LIMIT
    RestartDelay,     \* 700 ms
    MaxUpload         \* bound: the largest size declared or sent

ASSUME WebSizes ==
    /\ FlashSize \in Nat /\ FsImageSize \in Nat \ {0} /\ ConfigLimit \in Nat
    /\ IdleTimeout \in Nat /\ FailureWindow \in Nat \ {0} /\ FailureLimit \in Nat \ {0}
    /\ RestartDelay \in Nat /\ MaxUpload \in Nat

VARIABLES
    recoveryMode,     \* recoveryWebMode
    fsMounted,        \* LittleFS is mounted
    fsKnown,          \* recoveryFilesystemMounted
    password,         \* config.adminPasswordHash is set
    session,          \* authSessionToken is set, the browser has it, its idle time
    failures,         \* authFailureCount, time since authFailureWindowStartMillis
    blockedFor,       \* history: how long every login has been refused
    request,          \* the upload under way and how much of it was sent
    update,           \* updateUploadError, -Succeeded, -DeclaredSize, -WrittenSize
    updater,          \* platform: what Update has been told and been given
    upload,           \* configUploadFile, -Error, -Result, -WrittenSize; the temporary file
    imported,         \* history: the upload under way replaced the configuration
    restartIn         \* time left until restartAtMillis; nothing is scheduled

authVars == <<password, session, failures, blockedFor>>
updateVars == <<update, updater>>
uploadVars == <<upload, imported>>
webVars == <<recoveryMode, fsMounted, fsKnown, authVars, request, updateVars, uploadVars, restartIn>>

NotScheduled == RestartDelay + 1
NoSession == [open |-> FALSE, held |-> FALSE, idle |-> 0]
NoFailures == [count |-> 0, age |-> 0]
NoRequest == [kind |-> "none", sent |-> 0]
UpdaterIdle == [running |-> FALSE, size |-> 0, got |-> 0, whole |-> FALSE]

WebInit ==
    /\ recoveryMode \in BOOLEAN /\ fsMounted \in BOOLEAN
    /\ ~recoveryMode => fsMounted
    /\ fsKnown = (recoveryMode /\ fsMounted)
    /\ password \in BOOLEAN
    /\ session = NoSession /\ failures = NoFailures /\ blockedFor = 0
    /\ request = NoRequest
    /\ update = [error |-> TRUE, succeeded |-> FALSE, declared |-> 0, written |-> 0]
    /\ updater = UpdaterIdle
    /\ upload = [open |-> FALSE, error |-> TRUE, ok |-> FALSE, written |-> 0, temp |-> FALSE]
    /\ imported = FALSE
    /\ restartIn = NotScheduled

Free == request.kind = "none"

-----------------------------------------------------------------------------
(* Login. *)

\* isAuthorizedRequest(), from a browser with its token or without one.
Valid(withToken) == session.open /\ session.idle <= IdleTimeout /\ withToken /\ session.held
Authorized(withToken) == ~password \/ Valid(withToken)

\* hasValidAuthSession() forgets an expired session, and renews a used one.
SessionAfter(withToken, touch) ==
    IF ~password \/ ~session.open THEN session
    ELSE IF session.idle > IdleTimeout THEN NoSession
    ELSE IF Valid(withToken) /\ touch THEN [session EXCEPT !.idle = 0] ELSE session

\* getAuthRetryAfterMillis() is not zero.
Blocked(f) == f.count >= FailureLimit /\ f.age < FailureWindow

\* It forgets a window that is over.
Lapsed(f) == IF f.count >= FailureLimit /\ ~Blocked(f) THEN NoFailures ELSE f

\* recordAuthFailure(): a window that never began has no failures.
Recorded(f) ==
    IF f.count = 0 \/ f.age >= FailureWindow
    THEN [count |-> 1, age |-> 0]
    ELSE [f EXCEPT !.count = @ + 1]

UnlessAuth == UNCHANGED <<recoveryMode, fsMounted, fsKnown, request, updateVars, uploadVars, restartIn>>

LoginWith(f) ==
    /\ failures' = f
    /\ blockedFor' = IF Blocked(f) THEN blockedFor ELSE 0
    /\ UNCHANGED password
    /\ UnlessAuth

\* Variant: an attempt that is refused counts as one more failure.
LoginRefusedCounts ==
    /\ Free /\ ~recoveryMode /\ password
    /\ Blocked(failures)
    /\ LoginWith([count |-> failures.count, age |-> 0])
    /\ UNCHANGED session

\* handleAuthLogin()
LoginRefused ==
    /\ Free /\ ~recoveryMode /\ password
    /\ Blocked(failures)
    /\ LoginWith(failures)
    /\ UNCHANGED session

LoginWrong ==
    /\ Free /\ ~recoveryMode /\ password
    /\ ~Blocked(failures)
    /\ LoginWith(Lapsed(Recorded(Lapsed(failures))))
    /\ UNCHANGED session

LoginRight ==
    /\ Free /\ ~recoveryMode /\ password
    /\ ~Blocked(failures)
    /\ LoginWith(NoFailures)
    /\ session' = [open |-> TRUE, held |-> TRUE, idle |-> 0]

\* handleAuthLogout()
Logout ==
    /\ Free /\ ~recoveryMode
    /\ session.open /\ session.held
    /\ session' = NoSession
    /\ UNCHANGED <<password, failures, blockedFor>>
    /\ UnlessAuth

\* handleAuthPassword(), once the hash is stored; the browser is told the token.
SetPassword(enable) ==
    /\ Free /\ ~recoveryMode
    /\ Authorized(TRUE)
    /\ password' = enable
    /\ LET now == SessionAfter(TRUE, TRUE)
       IN session' = IF ~enable THEN NoSession
                     ELSE IF now.open THEN [now EXCEPT !.held = TRUE]
                     ELSE [open |-> TRUE, held |-> TRUE, idle |-> 0]
    /\ failures' = NoFailures /\ blockedFor' = 0
    /\ UnlessAuth

\* Any other request with the token: mutating ones renew the session, the
\* polling of status and diagnostics does not.
UseSession(touch) ==
    /\ Free /\ ~recoveryMode
    /\ session.open
    /\ session' = SessionAfter(TRUE, touch)
    /\ UNCHANGED <<password, failures, blockedFor>>
    /\ UnlessAuth

\* The browser loses its token (a tab is closed).
ForgetToken ==
    /\ Free
    /\ session.held
    /\ session' = [session EXCEPT !.held = FALSE]
    /\ UNCHANGED <<password, failures, blockedFor>>
    /\ UnlessAuth

\* handleRecoveryAuthPassword(), once the cleared hash is stored.
RecoveryClearPassword ==
    /\ Free /\ recoveryMode
    /\ fsKnown
    /\ password' = FALSE
    /\ session' = NoSession
    /\ UNCHANGED <<failures, blockedFor>>
    /\ UnlessAuth

-----------------------------------------------------------------------------
(* Firmware and file system. *)

MayUpdate(withToken) == recoveryMode \/ Authorized(withToken)

UnlessUpdate == UNCHANGED <<recoveryMode, password, failures, blockedFor, uploadVars, restartIn>>

\* beginUpdateUpload(): the size must fit; the file system is unmounted.
SizeFits(kind, size) ==
    /\ size > 0
    /\ kind = "flash" => size <= FlashSize
    /\ kind = "fs" => size = FsImageSize

StartUpdate(kind, size, begins) ==
    /\ Free
    /\ MayUpdate(TRUE)
    /\ session' = IF recoveryMode THEN session ELSE SessionAfter(TRUE, TRUE)
    /\ request' = [kind |-> kind, sent |-> 0]
    /\ begins => SizeFits(kind, size) /\ ~updater.running
    /\ update' = [error |-> ~begins, succeeded |-> FALSE, declared |-> size, written |-> 0]
    /\ updater' = IF begins THEN [running |-> TRUE, size |-> size, got |-> 0, whole |-> FALSE]
                  ELSE updater
    /\ IF kind = "fs" /\ SizeFits(kind, size)
       THEN fsMounted' = FALSE /\ fsKnown' = FALSE
       ELSE UNCHANGED <<fsMounted, fsKnown>>
    /\ UnlessUpdate

Updating == request.kind \in {"flash", "fs"}

\* A chunk comes in; after an error it is passed over, and too much is an error.
\* The flash takes all of it or less.
WriteUpdate(taken) ==
    /\ Updating
    /\ request.sent < MaxUpload
    /\ request' = [request EXCEPT !.sent = @ + 1]
    /\ IF update.error THEN taken = 0 /\ UNCHANGED <<update, updater>>
       ELSE IF update.written + 1 > update.declared
       THEN taken = 0 /\ update' = [update EXCEPT !.error = TRUE] /\ UNCHANGED updater
       ELSE /\ update' = [update EXCEPT !.written = @ + taken, !.error = (taken = 0)]
            /\ updater' = [updater EXCEPT !.got = @ + taken]
    /\ UNCHANGED <<fsMounted, fsKnown, session>>
    /\ UnlessUpdate

\* Variant: Update.end(true) takes what has come.
EndUpdateEarly(verified) ==
    /\ Updating
    /\ request' = [request EXCEPT !.kind = "answer"]
    /\ LET accepted == ~update.error /\ updater.running /\ verified
       IN /\ update' = [update EXCEPT !.error = ~accepted, !.succeeded = accepted]
          /\ updater' = [UpdaterIdle EXCEPT !.whole = accepted /\ updater.got = updater.size]
    /\ UNCHANGED <<fsMounted, fsKnown, session>>
    /\ UnlessUpdate

\* The upload ends: Update.end(false) accepts a whole image that verifies, and
\* stops in any case.
EndUpdate(verified) ==
    /\ Updating
    /\ request' = [request EXCEPT !.kind = "answer"]
    /\ LET right == ~update.error /\ update.written = update.declared
           accepted == right /\ updater.running /\ updater.got = updater.size /\ verified
       IN /\ update' = [update EXCEPT !.error = ~accepted, !.succeeded = accepted]
          /\ updater' = IF right \/ updater.running
                        THEN [UpdaterIdle EXCEPT !.whole = accepted]
                        ELSE updater
    /\ UNCHANGED <<fsMounted, fsKnown, session>>
    /\ UnlessUpdate

AbortUpdate ==
    /\ Updating
    /\ request' = NoRequest
    /\ update' = [update EXCEPT !.error = TRUE]
    /\ updater' = IF updater.running THEN UpdaterIdle ELSE updater
    /\ UNCHANGED <<fsMounted, fsKnown, session>>
    /\ UnlessUpdate

ScheduleRestart == restartIn' = RestartDelay

\* handleUpdateComplete(); the connection may be gone before it runs.
AnswerUpdate ==
    /\ request.kind = "answer"
    /\ request' = NoRequest
    /\ \/ IF update.succeeded THEN ScheduleRestart ELSE UNCHANGED restartIn
       \/ UNCHANGED restartIn
    /\ UNCHANGED <<recoveryMode, fsMounted, fsKnown, authVars, updateVars, uploadVars>>

-----------------------------------------------------------------------------
(* The configuration file: handleUploadConfig() and the handler that answers. *)

UnlessUpload == UNCHANGED <<recoveryMode, fsMounted, fsKnown, failures, blockedFor,
                            updateVars, restartIn>>

StartConfig(size, opens) ==
    /\ Free /\ ~recoveryMode
    /\ Authorized(TRUE)
    /\ session' = SessionAfter(TRUE, TRUE)
    /\ request' = [kind |-> "config", sent |-> 0]
    /\ opens => size <= ConfigLimit /\ fsMounted
    /\ upload' = [open |-> opens, error |-> ~opens, ok |-> FALSE, written |-> 0, temp |-> opens]
    /\ imported' = FALSE
    /\ UNCHANGED password
    /\ UnlessUpload

WriteConfig(taken) ==
    /\ request.kind = "config"
    /\ request.sent < MaxUpload
    /\ request' = [request EXCEPT !.sent = @ + 1]
    /\ IF upload.error THEN taken = 0 /\ UNCHANGED upload
       ELSE IF upload.written + 1 > ConfigLimit
       THEN /\ taken = 0
            /\ upload' = [upload EXCEPT !.open = FALSE, !.error = TRUE, !.temp = FALSE]
       ELSE upload' = [upload EXCEPT !.written = @ + taken, !.error = (taken = 0)]
    /\ UNCHANGED <<imported, session, password>>
    /\ UnlessUpload

\* Variant: what was written is imported in any case.
EndConfigAnyway(valid) ==
    /\ request.kind = "config"
    /\ request' = [request EXCEPT !.kind = "answerConfig"]
    /\ upload' = [upload EXCEPT !.open = FALSE, !.temp = FALSE,
                                !.ok = ~upload.error /\ valid,
                                !.error = upload.error \/ ~valid]
    /\ imported' = (upload.temp /\ valid)
    /\ UNCHANGED <<session, password>>
    /\ UnlessUpload

\* importConfigFile() replaces the configuration, with the password that the
\* file has or has not, or does nothing; the temporary file goes.
EndConfig(valid) ==
    /\ request.kind = "config"
    /\ request' = [request EXCEPT !.kind = "answerConfig"]
    /\ upload' = [upload EXCEPT !.open = FALSE, !.temp = FALSE,
                                !.ok = ~upload.error /\ valid,
                                !.error = upload.error \/ ~valid]
    /\ imported' = (~upload.error /\ valid)
    /\ password' \in IF imported' THEN BOOLEAN ELSE {password}
    /\ UNCHANGED session
    /\ UnlessUpload

AbortConfig ==
    /\ request.kind = "config"
    /\ request' = NoRequest
    /\ upload' = [upload EXCEPT !.open = FALSE, !.temp = FALSE, !.ok = FALSE, !.error = TRUE]
    /\ UNCHANGED <<imported, session, password>>
    /\ UnlessUpload

\* The answer, which only goes to a browser that may have it: one without a
\* session is refused when the file has set a password.
AnswerConfig ==
    /\ request.kind = "answerConfig"
    /\ request' = NoRequest
    /\ session' = SessionAfter(TRUE, TRUE)
    /\ UNCHANGED <<imported, upload, password>>
    /\ UnlessUpload

-----------------------------------------------------------------------------
(* Restart. *)

\* handleRestart(), handleForgetWifiCredentials() and, in recovery only,
\* handleFactoryReset(), which clears the password.
AskRestart ==
    /\ Free
    /\ MayUpdate(TRUE)
    /\ session' = IF recoveryMode THEN session ELSE SessionAfter(TRUE, TRUE)
    /\ \/ UNCHANGED password
       \/ recoveryMode /\ fsKnown /\ password' = FALSE
    /\ ScheduleRestart
    /\ UNCHANGED <<recoveryMode, fsMounted, fsKnown, failures, blockedFor, request,
                   updateVars, uploadVars>>

\* updateWeb() restarts when it is time: all of this is volatile but the password.
Restart ==
    /\ Free
    /\ restartIn = 0
    /\ recoveryMode' \in BOOLEAN /\ fsMounted' \in BOOLEAN
    /\ ~recoveryMode' => fsMounted'
    /\ fsKnown' = (recoveryMode' /\ fsMounted')
    /\ session' = NoSession /\ failures' = NoFailures /\ blockedFor' = 0
    /\ update' = [error |-> TRUE, succeeded |-> FALSE, declared |-> 0, written |-> 0]
    /\ updater' = UpdaterIdle
    /\ upload' = [open |-> FALSE, error |-> TRUE, ok |-> FALSE, written |-> 0, temp |-> FALSE]
    /\ imported' = FALSE
    /\ restartIn' = NotScheduled
    /\ UNCHANGED <<password, request>>

WebTick ==
    /\ Free
    /\ restartIn # 0
    /\ restartIn' = IF restartIn = NotScheduled THEN NotScheduled ELSE restartIn - 1
    /\ session' = IF session.open /\ session.idle <= IdleTimeout
                  THEN [session EXCEPT !.idle = @ + 1] ELSE session
    /\ failures' = IF failures.count > 0 /\ failures.age < FailureWindow
                   THEN [failures EXCEPT !.age = @ + 1] ELSE failures
    /\ blockedFor' = IF Blocked(failures') /\ blockedFor <= FailureWindow THEN blockedFor + 1 ELSE 0
    /\ UNCHANGED <<recoveryMode, fsMounted, fsKnown, password, request, updateVars, uploadVars>>

-----------------------------------------------------------------------------

WebAuth ==
    \/ LoginRefused \/ LoginWrong \/ LoginRight \/ Logout
    \/ \E b \in BOOLEAN : SetPassword(b) \/ UseSession(b)
    \/ ForgetToken \/ RecoveryClearPassword

WebUpdate ==
    \/ \E kind \in {"flash", "fs"}, size \in 0 .. MaxUpload, b \in BOOLEAN : StartUpdate(kind, size, b)
    \/ \E taken \in 0 .. 1 : WriteUpdate(taken)
    \/ \E v \in BOOLEAN : EndUpdate(v)
    \/ AbortUpdate \/ AnswerUpdate

WebConfig ==
    \/ \E size \in 0 .. MaxUpload, b \in BOOLEAN : StartConfig(size, b)
    \/ \E taken \in 0 .. 1 : WriteConfig(taken)
    \/ \E v \in BOOLEAN : EndConfig(v)
    \/ AbortConfig \/ AnswerConfig

WebNext == WebAuth \/ WebUpdate \/ WebConfig \/ AskRestart \/ Restart \/ WebTick

WebSpec == WebInit /\ [][WebNext]_webVars

-----------------------------------------------------------------------------
(* Properties. *)

\* Types.
WebTypeOK ==
    /\ recoveryMode \in BOOLEAN /\ fsMounted \in BOOLEAN /\ fsKnown \in BOOLEAN
    /\ password \in BOOLEAN /\ imported \in BOOLEAN
    /\ session \in [open : BOOLEAN, held : BOOLEAN, idle : 0 .. IdleTimeout + 1]
    /\ failures \in [count : 0 .. FailureLimit, age : 0 .. FailureWindow]
    /\ blockedFor \in Nat
    /\ request \in [kind : {"none", "flash", "fs", "config", "answer", "answerConfig"},
                    sent : 0 .. MaxUpload]
    /\ update \in [error : BOOLEAN, succeeded : BOOLEAN, declared : 0 .. MaxUpload,
                   written : 0 .. MaxUpload]
    /\ updater \in [running : BOOLEAN, size : 0 .. MaxUpload, got : 0 .. MaxUpload,
                    whole : BOOLEAN]
    /\ upload \in [open : BOOLEAN, error : BOOLEAN, ok : BOOLEAN, written : 0 .. MaxUpload,
                   temp : BOOLEAN]
    /\ restartIn \in 0 .. NotScheduled

\* An update is reported as successful only when the updater has accepted the
\* whole image that was declared, however chunks were cut, refused or too
\* many, whatever an earlier upload left behind; and no upload, aborted or
\* failed, leaves the updater busy for the next.
UpdateIsWhole ==
    /\ update.succeeded => updater.whole /\ update.written = update.declared
    /\ (Free \/ request.kind = "answer") => ~updater.running

\* The answer prepared for a configuration upload says what happened to the
\* configuration, and neither the open file nor the temporary file outlives it.
ConfigUploadIsReported ==
    /\ request.kind = "answerConfig" => (upload.ok <=> imported)
    /\ (Free \/ request.kind = "answerConfig") => ~upload.open /\ ~upload.temp

\* However often somebody tries while the login is closed, it opens again when
\* the window is over.
LockoutEnds == Blocked(failures) => blockedFor < FailureWindow

=============================================================================
