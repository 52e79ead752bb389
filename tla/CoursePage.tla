------------------------------ MODULE CoursePage ------------------------------
(***************************************************************************)
(* features/learning: the composable useLearningCourse and the pages that  *)
(* use it: the list (submitTopic), and the lesson (loadCourse,             *)
(* generateNextLesson, markSessionDone), of which the course page, which   *)
(* only loads, is a part.  Their async functions overlap and share one     *)
(* poll timer and the refs the template reads; what a request answers is   *)
(* any answer of the backend, and courses are not told apart.              *)
(***************************************************************************)
EXTENDS Naturals

CONSTANTS
    Runs,        \* runs of the async functions, each used once
    MaxTicks     \* bound: ticks of a poll before it is timed out

VARIABLES
    page,        \* the composable's refs, its timer, and the page's own flag
    run          \* the async functions under way, and the poll of each

NoRun == [fn |-> "none", at |-> "unused", poll |-> "off", ticks |-> 0, asked |-> 0]

courseVars == <<page, run>>

CoursePageTypeOK ==
    /\ page \in [is : {"list", "lesson"}, mounted : BOOLEAN, submitting : BOOLEAN,
                 advancing : BOOLEAN, error : BOOLEAN, course : BOOLEAN,
                 status : {"none", "ready", "failed"}, timer : Runs \cup {"null"},
                 intervals : SUBSET Runs]
    /\ run \in [Runs -> [fn : {"none", "submit", "load", "advance", "mark"},
                         at : {"unused", "create", "get", "post", "patch", "poll", "done"},
                         poll : {"off", "course", "lesson"},
                         ticks : 0..MaxTicks, asked : 0..MaxTicks]]

CoursePageInit ==
    /\ page \in [is : {"list", "lesson"}, mounted : {TRUE}, submitting : {FALSE},
                 advancing : {FALSE}, error : {FALSE}, course : {FALSE},
                 status : {"none"}, timer : {"null"}, intervals : {{}}]
    /\ run = [i \in Runs |-> NoRun]

-----------------------------------------------------------------------------
(* The refs and the timer, as functions of the page *)

\* stopPolling() clears the interval whose id is in pollTimer.
Stopped(p) == [p EXCEPT !.intervals = @ \ {p.timer}, !.timer = "null"]

Polling(p, i) == [p EXCEPT !.intervals = @ \cup {i}, !.timer = i]

WithError(p) == [p EXCEPT !.error = TRUE]
WithCourse(p) == [p EXCEPT !.course = TRUE, !.status = "ready"]
WithFailure(p) == [p EXCEPT !.status = "failed", !.error = TRUE]

\* The finally of each function.
Left(p, fn) ==
    CASE fn = "submit"  -> [p EXCEPT !.submitting = FALSE]
      [] fn = "advance" -> [p EXCEPT !.advancing = FALSE]
      [] OTHER -> p

Go(i, at, p) == run' = [run EXCEPT ![i].at = at] /\ page' = p
Finish(i, p) == Go(i, "done", Left(p, run[i].fn))

\* A promise settles once: later answers of the same poll change the page only.
Settle(i, p) == IF run[i].at = "poll" THEN Left(p, run[i].fn) ELSE p
SettledAt(i) == IF run[i].at = "poll" THEN "done" ELSE run[i].at

-----------------------------------------------------------------------------
(* Calls of the page *)

Launch(i, fn, at, p) ==
    /\ page.mounted
    /\ run[i] = NoRun
    /\ run' = [run EXCEPT ![i].fn = fn, ![i].at = at]
    /\ page' = p

\* LearningList.onGenerate: submitTopic refuses a second call.
submitTopic(i) ==
    /\ page.is = "list" /\ ~page.submitting
    /\ Launch(i, "submit", "create",
             [Stopped(page) EXCEPT !.submitting = TRUE, !.error = FALSE,
                                   !.course = FALSE, !.status = "none"])

\* load: on mount, by the button of the error view, and whenever the parameters
\* of the route change, whatever load, poll or advance is under way.
loadCourse(i) ==
    /\ page.is = "lesson"
    /\ Launch(i, "load", "get", [Stopped(page) EXCEPT !.error = FALSE])

Ready == page.course /\ ~page.error /\ page.status # "failed"

onAdvance(i) ==
    /\ page.is = "lesson" /\ Ready /\ ~page.advancing
    /\ Launch(i, "advance", "post", [page EXCEPT !.advancing = TRUE])

onMarkSessionDone(i) ==
    page.is = "lesson" /\ Ready /\ Launch(i, "mark", "patch", page)

onUnmounted ==
    /\ page.mounted
    /\ page' = [Stopped(page) EXCEPT !.mounted = FALSE]
    /\ UNCHANGED run

-----------------------------------------------------------------------------
(* Answers: they come after the page was left, too *)

Created(i) ==
    /\ run[i].at = "create"
    /\ Go(i, "get", page) \/ Finish(i, WithError(page))

\* setInterval, and the promise that now waits for it.
StartPoll(i, kind, p) ==
    /\ run' = [run EXCEPT ![i].at = "poll", ![i].poll = kind]
    /\ page' = Polling(p, i)

\* Mutant: pollUntilSettled leaves the timer it finds.
pollUntilSettledOnly(i) == StartPoll(i, "course", page)

\* pollUntilSettled of a pending course: settle(initial) stops what was polling.
pollUntilSettled(i) == StartPoll(i, "course", Stopped(page))

\* pollForLesson; the course has fewer lessons than asked for, so it polls.
pollForLesson(i) == StartPoll(i, "lesson", Stopped(page))

\* The first GET.  submitTopic passes every answer through settle and writes
\* every error; loadCourse returns a ready course at once and rethrows an error
\* of the request as it is.
Got(i) ==
    /\ run[i].at = "get"
    /\ LET own == run[i].fn = "submit"
           now == IF own THEN Stopped(page) ELSE page IN
       \/ Finish(i, WithCourse(now))
       \/ Finish(i, WithFailure(now))
       \/ Finish(i, IF own THEN WithError(page) ELSE page)
       \/ pollUntilSettled(i)

\* generateNextLesson: queued, already there (then loadCourse), failed, an error.
Posted(i) ==
    /\ run[i].at = "post"
    /\ \/ pollForLesson(i)
       \/ Go(i, "get", [Stopped(page) EXCEPT !.error = FALSE])
       \/ Finish(i, page)
       \/ Finish(i, WithError(page))

Patched(i) ==
    /\ run[i].at = "patch"
    /\ Finish(i, page) \/ Finish(i, WithError(page))

\* Mutant: a poll that is timed out is reported and goes on.
TimedOutRuns(i) == IF run[i].poll = "course" THEN WithFailure(page) ELSE WithError(page)

TimedOut(i) ==
    IF run[i].poll = "course" THEN WithFailure(Stopped(page)) ELSE WithError(Stopped(page))

\* The interval fires: another GET, whether or not the last was answered, until
\* the time is over.
Tick(i) ==
    /\ i \in page.intervals
    /\ \/ /\ run[i].ticks < MaxTicks
          /\ run' = [run EXCEPT ![i].ticks = @ + 1, ![i].asked = @ + 1]
          /\ UNCHANGED page
       \/ /\ run[i].ticks = MaxTicks
          /\ page' = Settle(i, TimedOut(i))
          /\ run' = [run EXCEPT ![i].at = SettledAt(i)]

\* A tick's answer stops the timer there is, whichever poll it belongs to.
TickAnswered(i) ==
    /\ run[i].asked > 0
    /\ LET Ends(p) == /\ page' = Settle(i, p)
                      /\ run' = [run EXCEPT ![i].asked = @ - 1, ![i].at = SettledAt(i)]
           Goes(p) == page' = p /\ run' = [run EXCEPT ![i].asked = @ - 1] IN
       \/ Goes(page)
       \/ Ends(WithCourse(Stopped(page)))
       \/ Ends(WithError(Stopped(page)))
       \/ run[i].poll = "course" /\ Ends(WithFailure(Stopped(page)))
       \/ run[i].poll = "lesson" /\ Goes(WithCourse(page))

CoursePageNext ==
    \/ onUnmounted
    \/ \E i \in Runs :
          \/ submitTopic(i) \/ loadCourse(i) \/ onAdvance(i) \/ onMarkSessionDone(i)
          \/ Created(i) \/ Got(i) \/ Posted(i) \/ Patched(i) \/ Tick(i) \/ TickAnswered(i)

CoursePageSpec == CoursePageInit /\ [][CoursePageNext]_courseVars

\* An interval that was not cleared fires.
CourseLiveSpec == CoursePageSpec /\ \A i \in Runs : WF_courseVars(Tick(i))

-----------------------------------------------------------------------------
(* Properties *)

\* Every interval that runs is the one in pollTimer, so that stopPolling - of
\* the next load, of an error, of the unmount - reaches it.
OneInterval == page.intervals \subseteq {page.timer}

\* No poll goes on for ever, on the page or after it: an answer, an error, a
\* new load, the unmount or the timeout ends it.
EveryPollEnds == <>[](page.intervals = {})

\* useLearningCourse.ts:14 and :423 say: no interval outlives its page.
NoPollAfterUnmount == ~page.mounted => page.intervals = {}
=============================================================================
