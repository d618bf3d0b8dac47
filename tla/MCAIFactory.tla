----------------------------- MODULE MCAIFactory -----------------------------
(* AIFactory with a letter-level view of short texts: a perfect transcript,  *)
(* one that moves a space (no letter error), an insertion, a substitution.   *)
EXTENDS AIFactory

CONSTANTS whisper, canary, other

MCEvaluations == {1, 2}

MCRequests == {<<1, 1>>, <<1, 2>>, <<2, 1>>} \union {other}

\* "ab c" and "a", then "ab c" alone
MCSamples == <<<<<<<<"a", "b">>, <<"c">>>>, <<<<"a">>>>>>, <<<<<<"a", "b">>, <<"c">>>>>>>>

\* "a bc": a space moved (no letter error), or a word inserted and nothing else
MCTranscripts == {<<<<"a">>, <<"b", "c">>>>}

\* The texts with their words cut to a letter each: "[stub transcript ...",
\* "hello world".
MCStubTranscript == <<<<"s">>, <<"t">>>>
MCHelloWorld == <<<<"h">>, <<"w">>>>

Act(t, a) == [type |-> t, arg |-> a]

MCPlans ==
    {<<Act("noop", None), Act("other", None), Act("evaluate", None)>>,
     <<Act("evaluate", canary), Act("promote", canary), Act("set_hint", 350)>>}
==============================================================================
