----------------------------- MODULE Rendering -----------------------------
\* odin.cmd_render: an external renderer is run on each diagram, and a report says
\* what became of it.
EXTENDS Integers, Sequences, FiniteSets, SequencesExt

\* graphs/rendered holds a report and, for each source, the output of "this" run,
\* of an "earlier" one, or "none".  What the renderer does with a source is an
\* exit code, 124 if the timeout has stopped it, and whether it has written.

\* Mutant: the exit code alone decides.
SucceedsByCode(outputs, source, conduct) == conduct.code = 0

\* A diagram counts as rendered if the renderer says so and there is an output.
Succeeds(outputs, source, conduct) == conduct.code = 0 /\ outputs[source] # "none"

\* One turn of the loop over the sources.
Render(done, source, conduct) ==
  LET outputs == IF conduct.writes THEN [done.outputs EXCEPT ![source] = "this"] ELSE done.outputs
  IN IF Succeeds(outputs, source, conduct)
     THEN [done EXCEPT !.outputs = outputs, !.ok = Append(@, source)]
     ELSE [done EXCEPT !.outputs = outputs, !.failed = Append(@, source)]

\* cmd_render.  `version` is what the call for the version does: "fails", "silent"
\* (it prints nothing, and taking its first line ends the command) or "prints".
CmdRender(rendered, version, sources, conduct) ==
  LET done == FoldLeft(LAMBDA d, s : Render(d, s, conduct[s]),
                       [outputs |-> rendered.outputs, ok |-> <<>>, failed |-> <<>>], sources)
  IN CASE version = "fails" ->
            [rendered EXCEPT !.report = [status |-> "unavailable", by |-> "this",
                                         ok |-> <<>>, failed |-> <<>>]]
       [] version = "silent" -> rendered
       [] version = "prints" ->
            [outputs |-> done.outputs,
             report |-> [status |-> IF done.failed = <<>> THEN "rendered" ELSE "partial",
                         by |-> "this", ok |-> done.ok, failed |-> done.failed]]
=============================================================================
