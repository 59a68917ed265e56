---------------------------- MODULE MCModuleGraph ----------------------------
(***************************************************************************)
(* Two threads, four modules and the configurations the runs of            *)
(* ModuleGraph request.                                                    *)
(***************************************************************************)
EXTENDS ModuleGraph

CONSTANTS cognition, motion, ball, field, pose,
          BallA, BallB, Locator, Walker

MCThread == {cognition, motion}
MCRepresentation == {ball, field, pose}
MCModule == {BallA, BallB, Locator, Walker}

\* BallB can provide the field as well; the Walker needs all there is.  The Locator and
\* BallA look at representations that need not be up to date: BallA even at what is
\* computed from its own ball.
MCRequires ==
  [m \in MCModule |-> CASE m = Locator -> {ball}
                        [] m = Walker -> {ball, pose}
                        [] OTHER -> {}]
MCUses ==
  [m \in MCModule |-> CASE m = Locator -> {field}
                        [] m = BallA -> {pose}
                        [] OTHER -> {}]
MCProvides ==
  [m \in MCModule |-> CASE m = BallA -> {ball}
                        [] m = BallB -> {ball, field}
                        [] m = Locator -> {pose}
                        [] m = Walker -> {field}]

Config(first, second, default) ==
  [providers |-> [t \in MCThread |-> IF t = cognition THEN first ELSE second],
   default |-> default]
Nothing == [r \in {} |-> r]
By(r, m) == [x \in {r} |-> m]
And(f, g) == [x \in DOMAIN f \union DOMAIN g |-> IF x \in DOMAIN f THEN f[x] ELSE g[x]]

\* The motion thread receives ball and pose.
Apart == Config(And(By(ball, BallA), By(pose, Locator)), By(field, Walker), {})
\* The other provider of balls, and only the ball is sent.
Less == Config(By(ball, BallB), By(pose, Locator), {})
\* The Locator runs in the other thread, the ball comes back.
Swapped == Config(By(field, Walker), And(By(ball, BallA), By(pose, Locator)), {})
\* The ball keeps its default.
NoBall == Config(By(pose, Locator), By(field, Walker), {ball})
\* As Apart, by the other provider of balls.
Other == Config(And(By(ball, BallB), By(pose, Locator)), By(field, Walker), {})
\* All in one thread.
Wide == Config(And(By(ball, BallA), And(By(field, BallB), By(pose, Locator))), Nothing, {})
\* The field is switched off, although the Locator uses it: BallB ends.
Off == Config(And(By(ball, BallA), By(pose, Locator)), Nothing, {})
\* As Wide, with an error: the ball is provided and keeps its default.
Twice == [Wide EXCEPT !.default = {ball}]
\* With an error: a Locator does not provide the field.
Broken == Config(By(field, Locator), Nothing, {ball})

MCFull == {motion}
MCConfigurations == {Apart, Less, Swapped, NoBall, Other, Wide, Off, Twice}
MCRejected == {Apart, NoBall, Broken}

\* What the entries to reset suffice for: the configurations of the one run, although
\* it can reject some, and not those of the other one.
ASSUME ResetsAssumption ==
  /\ Configurations = MCConfigurations => ResetsSuffice
  /\ Configurations = MCRejected => ~ResetsSuffice
=============================================================================
