----------------------------- MODULE AcceptanceMC -----------------------------
EXTENDS Acceptance

Latest == [kind |-> "latest", from |-> 0, to |-> 0]
History == [kind |-> "history", from |-> 0, to |-> 0]
All == [kind |-> "all", from |-> 0, to |-> 0]
Interval(a, b) == [kind |-> "range", from |-> a, to |-> b]

Obs(id, kind, scope, time) == [id |-> id, kind |-> kind, scope |-> scope, time |-> time]
Flow(time) == Obs("flow", "flow", "inlet", time)
Speed(scope, time) == Obs("speed", "velocity", scope, time)
Residual(time) == Obs("residual", "residual", "global", time)
Pressure == Obs("pressure", "pressure", "inlet", Latest)

SomeUnits == [flow |-> "kg/s", velocity |-> "m/s", residual |-> "1", pressure |-> "Pa", force |-> "N"]

Word(mark) == [marks |-> {mark}, numbers |-> {}]
Number(n) == [marks |-> {}, numbers |-> {n}]

\* "<kind> at most <limit> <unit>"
Claim(kind, limit) == <<Word(kind), Word("less_equal"), Number(limit), Word(SomeUnits[kind])>>

During(kind) ==
    IF kind = "all" THEN <<Word("throughout")>>
    ELSE IF kind = "range" THEN <<Word("interval"), Number(1), Number(2)>> ELSE <<>>

Sentence(kind, limit, time) == Claim(kind, limit) \o During(time)

\* Two claims in one sentence: the limit of the first is read for both.
Both == Claim("flow", 0) \o Claim("pressure", 1)

Cond(id, o, limit, scope, quote) ==
    [id |-> id, observation |-> o, op |-> "less_equal", limit |-> limit, scope |-> scope,
     unit |-> SomeUnits[o.kind], source |-> "user_text", confirmed |-> TRUE, quote |-> quote]

\* One condition on a flow or a residual, asked for and observed in every way.
Asked ==
    {Cond("c", o, 0, scope, Sentence(o.kind, 0, scope.kind)) :
       o \in {Flow(time) : time \in {Latest, History, Interval(1, 2)}} \cup {Residual(Latest), Residual(History)},
       scope \in {Latest, All, Interval(1, 2)}}

Plain == Cond("c", Flow(Latest), 0, Latest, Sentence("flow", 0, "latest"))
Fast == Cond("c", Speed("zone as region", Latest), 0, Latest, Sentence("velocity", 0, "latest"))

\* Conditions no verdict may rest on, quoting the sentence they do not agree with:
\* in its limit, its kind, its operator, its unit or its time.
Unfit ==
    {[Plain EXCEPT !.limit = 1], [Plain EXCEPT !.quote = Sentence("flow", 1, "latest")],
     [Plain EXCEPT !.quote = Sentence("residual", 0, "latest")],
     [Plain EXCEPT !.quote[2] = Word("greater_equal")], [Plain EXCEPT !.unit = "m3/s"],
     [Plain EXCEPT !.quote = @ \o <<Word("m3/s")>>, !.unit = "m3/s"],
     [Plain EXCEPT !.quote = Sentence("flow", 0, "all")], [Plain EXCEPT !.source = "model_inference"],
     [Plain EXCEPT !.observation.kind = "force", !.quote = Sentence("force", 0, "latest"), !.unit = "N"],
     [Plain EXCEPT !.observation.scope = "nowhere"], Fast,
     [Fast EXCEPT !.op = "finite", !.quote = <<Word("velocity"), Word("finite"), Word("m/s")>>]}

\* Two claims in one sentence, quoted with either number.
Mixed == {Cond("c", Pressure, limit, Latest, Both) : limit \in {0, 1}}

TaskOf(plain, conditions, statements) ==
    [plain |-> plain, conditions |-> conditions, statements |-> statements]

\* The sentences of the task are those its conditions quote.
Task(plain, conditions) ==
    TaskOf(plain, conditions, {conditions[k].quote : k \in DOMAIN conditions})

\* The second request of the same observation, in the intent or in a condition.
Second == Cond("d", Flow(Latest), 1, Latest, Sentence("flow", 1, "latest"))

Balance(time) ==
    <<Obs("balance", "flow", "pair", time), Obs("in", "flow", "inlet", time), Obs("out", "flow", "outlet", time)>>

SomeTasks ==
    {Task(<<>>, <<c>>) : c \in Asked \cup Unfit \cup Mixed}
      \cup {TaskOf(<<>>, <<c>>, {Sentence("flow", 1, "latest")}) : c \in {Plain, Second}}
      \cup {Task(<<Flow(History)>>, <<c>>) : c \in Asked}
      \cup {Task(<<Flow(History), Flow(Latest)>>, <<Second>>), Task(<<>>, <<Second, Second>>),
            Task(<<Flow(Interval(1, 2)), Flow(History)>>, <<>>), Task(Balance(Latest), <<>>),
            Task(Balance(Latest), <<[Second EXCEPT !.observation.id = "balance"]>>),
            Task(<<Balance(Latest)[1]>>, <<>>)}
      \cup {Task(<<>>, <<c, Second>>) : c \in {d \in Asked : d.observation.id = "flow"}}
===============================================================================
