----------------------------- MODULE MCCommands -----------------------------
EXTENDS CommandHandler

MCNames == <<"lint", "test", "2">>

Used(peak, throttled) ==
    [s \in {"peak", "cpu", "throttledPeriods", "periods", "cpuLimit", "memLimit", "diskRead", "diskWrite"} |->
        CASE s = "peak" -> peak [] s = "throttledPeriods" -> throttled [] s = "periods" -> 50
          [] s = "cpuLimit" -> 20000 [] s = "memLimit" -> 1000 [] s = "diskWrite" -> 0 [] OTHER -> 1]
Requested == [s \in {"cpuRequest", "memLimit"} |-> 500]

\* A throttled Java build; one whose pod left no trace; one whose pod was only
\* scheduled; one that took no time; one with a line too long in its log.
Heavy == [start |-> 1, finish |-> 4, log |-> <<"text", "pod", "text">>, trace |-> {"Java"},
          label |-> "pod", series |-> Used(300, 20)]
Shell == [Heavy EXCEPT !.start = 2, !.finish = 3, !.log = <<"text">>, !.trace = {}, !.label = "empty"]
Silent == [Heavy EXCEPT !.start = 2, !.finish = 3, !.trace = {}, !.series = Requested]
Instant == [Silent EXCEPT !.start = 3, !.log = <<"pod", "too long">>]
Loud == [Heavy EXCEPT !.log = <<"text", "too long", "pod">>, !.label = "none"]
MCRuns == {Heavy}
MCPipelines == {<<Heavy, Heavy, NotRun>>, <<Shell, Silent, Heavy>>,
    <<Heavy, Instant, Loud>>}

MCLimits == [throttle |-> 25, longJob |-> 10, memory |-> 90]

MCNumerals == [n \in {"2"} |-> 2]
MCPods == [n \in {"runner-2"} |-> 2]

Note(body, root, tagged) == [body |-> body, root |-> root, tagged |-> tagged]
MCNotes ==
    {Note(<<<<>>, <<"HELP">>>>, "report", FALSE),
     Note(<<<<"Details", "Job", "test">>>>, "report", FALSE),
     Note(<<<<"details", "runner-2">>>>, "report", FALSE),
     Note(<<<<"details", "pod", "lint">>>>, "report", FALSE),
     Note(<<<<"advise">>>>, "report", FALSE),
     Note(<<<<"advise", "job", "2">>>>, "report", FALSE),
     Note(<<<<"advise">>, <<"thanks">>>>, "other", FALSE),
     Note(<<<<"advise">>>>, "report", TRUE),
     Note(<<<<"looks", "good">>>>, "report", FALSE)}
=============================================================================
