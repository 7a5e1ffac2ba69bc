---------------------------- MODULE NoteDelivery ----------------------------
(***************************************************************************)
(* One note from the request for it to its submission: the research report *)
(* and the providers that write the text (generation/service.py), the      *)
(* verdict of generation and the gate of the workflow that runs it         *)
(* (orchestrator/workflow.py, orchestrator/hot_to_note.py), the package    *)
(* that its owner brings back (cli.py), and the three re-verifications of  *)
(* publishing/service.py: at the draft, at the approval, and in the        *)
(* preflight of the submission (publishing/publication_gate.py).           *)
(*                                                                         *)
(* A text is what the verifiers tell apart: the factual claims of its      *)
(* title and of its body, whether a banned phrase occurs, and which of the *)
(* researched notes it echoes (0 for none), word by word or only in        *)
(* meaning.  Meaning is seen by the embedding model alone.                 *)
(***************************************************************************)
EXTENDS Naturals, FiniteSets

CONSTANTS Claims,      \* factual claims a text can make
          Providers,   \* model providers in the order they are asked, 1..Providers
          MaxNotes,    \* most notes of a research report (bound)
          Carried,     \* notes a package carries as references (10 in the code)
          MaxEdits     \* times the owner edits (bound)

ASSUME NotesAssumption == MaxNotes \in Nat

VARIABLES note,        \* the request, its text, the notes the package carries, and
                       \* the claims its owner put evidence in for
          verdict,     \* the gate's fields of the package: the references of its
                       \* claims, and whether its reports block it
          evidence,    \* claims whose evidence is still valid
          embedder,    \* whether the embedding model answers
          cover,       \* the generated cover in the asset library
          step         \* where the note is

noteVars == <<note, verdict, evidence, embedder, cover, step>>

Texts == [title : SUBSET Claims, body : SUBSET Claims, banned : BOOLEAN,
          echo : 0..MaxNotes, literal : BOOLEAN]

\* What a model, a rewrite (whose reports hold nothing back) or the owner may
\* write. Nothing echoed is nothing echoed literally; the note is one found.
Writable(found) ==
    {t \in Texts : t.echo <= found /\ (t.echo = 0 => ~t.literal)}

-----------------------------------------------------------------------------
(* The verifiers.                                                          *)

\* verifiers/claims.py: evidence binds a claim exactly and may have expired.
Verified(made, refs) == made \cap refs \cap evidence

\* verifiers/originality.py, against some notes; meaning only when asked.
TooClose(text, notes, semantic) ==
    /\ text.echo \in notes
    /\ text.literal \/ semantic

\* generation/service.py: claims of the body alone, every note of the report.
GenerationVerdict(text) ==
    LET backed == Verified(text.body, note.backed)
    IN [refs    |-> backed,
        blocked |-> \/ text.banned
                    \/ TooClose(text, 1..note.found, TRUE)
                    \/ backed # text.body]

Trusted(text, refs, semantic) == verdict

\* publishing/publication_gate.py: claims of title and body, the evidence and
\* the notes that the package itself carries.
Reverified(text, refs, semantic) ==
    LET made   == text.title \cup text.body
        backed == Verified(made, refs)
    IN [refs    |-> backed,
        blocked |-> \/ text.banned
                    \/ TooClose(text, note.carried, semantic)
                    \/ backed # made]

-----------------------------------------------------------------------------
NoteInit ==
    /\ note = [found |-> 0, backed |-> {}, text |-> CHOOSE t \in Texts : TRUE,
               carried |-> {}, own |-> {}, provider |-> 0, tried |-> 0, edits |-> 0]
    /\ verdict = [refs |-> {}, blocked |-> FALSE]
    /\ evidence = Claims
    /\ embedder = TRUE
    /\ cover = "none"
    /\ step = "requested"

\* The report is there, and the deterministic template is built from it.
Prepare ==
    /\ step = "requested"
    /\ \E found \in 0..MaxNotes, backed \in SUBSET Claims :
         \E text \in Writable(found) :
           note' = [note EXCEPT !.found = found, !.backed = backed, !.text = text]
    /\ step' = "asking"
    /\ UNCHANGED <<verdict, evidence, embedder, cover>>

\* A provider without a model, with an open circuit, over its rate, raising or
\* answering without structured data: the next one is asked.
ProviderFails ==
    /\ step = "asking"
    /\ note.tried < Providers
    /\ note' = [note EXCEPT !.tried = @ + 1]
    /\ UNCHANGED <<verdict, evidence, embedder, cover, step>>

\* Any structured answer ends the loop.  A field it lacks keeps the template's.
ProviderAnswers ==
    /\ step = "asking"
    /\ note.tried < Providers
    /\ \E text \in Writable(note.found), hasBody \in BOOLEAN :
         note' = [note EXCEPT !.text = IF hasBody THEN text
                                       ELSE [@ EXCEPT !.title = text.title],
                              !.provider = note.tried + 1,
                              !.tried = note.tried + 1]
    /\ step' = "written"
    /\ UNCHANGED <<verdict, evidence, embedder, cover>>

\* Every provider asked, or none configured: the template is what is delivered.
FallsBack ==
    /\ step = "asking"
    /\ note.tried = Providers
    /\ step' = "written"
    /\ UNCHANGED <<note, verdict, evidence, embedder, cover>>

\* The verdict on the text.  With references and no embedding model the whole
\* generation fails.  The package carries the first notes of the report.  The
\* cover is a side dish: its failure is swallowed.
Deliver ==
    /\ step = "written"
    /\ IF note.found > 0 /\ ~embedder
         THEN step' = "failed" /\ UNCHANGED <<note, verdict, cover>>
         ELSE /\ note' = [note EXCEPT !.carried = {k \in 1..note.found : k <= Carried}]
              /\ verdict' = GenerationVerdict(note.text)
              /\ cover' \in {"none", "stored"}
              /\ step' = "generated"
    /\ UNCHANGED <<evidence, embedder>>

\* The workflow's gate repeats the verdict; the suggestion of a rewrite, which
\* it never applies, needs the embedding model too and can fail the run.
Gate ==
    /\ step = "generated"
    /\ \E suggests \in BOOLEAN :
         /\ TooClose(note.text, 1..note.found, TRUE) => suggests
         /\ step' = IF suggests /\ note.found > 0 /\ ~embedder THEN "failed"
                                                               ELSE "delivered"
    /\ UNCHANGED <<note, verdict, evidence, embedder, cover>>

\* hot_to_note calls the generation itself and returns the package as it is.
FromHot ==
    /\ step = "generated"
    /\ step' = "delivered"
    /\ UNCHANGED <<note, verdict, evidence, embedder, cover>>

\* The owner brings back the whole package, by hand or by taking a rewrite:
\* another text, some of the references and of the carried notes, references of
\* his own with a validity of his own, and reports that say what they like.
Edit ==
    /\ step = "delivered"
    /\ note.edits < MaxEdits
    /\ \E own \in SUBSET Claims :
         /\ \E text \in Writable(note.found), carried \in SUBSET note.carried :
              note' = [note EXCEPT !.text = text, !.carried = carried,
                                   !.own = @ \cup own, !.edits = @ + 1]
         /\ \E left \in SUBSET verdict.refs, blocked \in BOOLEAN :
              verdict' = [refs |-> left \cup own, blocked |-> blocked]
         /\ evidence' = evidence \cup own
    /\ UNCHANGED <<embedder, cover, step>>

-----------------------------------------------------------------------------
(* The three gates of the publishing service.                              *)

Publishable(v) == ~v.blocked

CoverResolves == cover # "deleted"

\* A refusal leaves the package with the caller as it was.
CreateDraft ==
    /\ step = "delivered"
    /\ CoverResolves
    /\ LET v == Reverified(note.text, verdict.refs, FALSE)
       IN Publishable(v) /\ verdict' = v
    /\ step' = "drafted"
    /\ UNCHANGED <<note, evidence, embedder, cover>>

ApproveNote ==
    /\ step = "drafted"
    /\ LET v == Reverified(note.text, verdict.refs, FALSE)
       IN Publishable(v) /\ verdict' = v
    /\ step' = "approved"
    /\ UNCHANGED <<note, evidence, embedder, cover>>

\* An embedding model that fails here leaves the synchronous result.
SubmitNote ==
    /\ step = "approved"
    /\ LET v == Reverified(note.text, verdict.refs, embedder)
       IN /\ verdict' = v
          /\ step' = IF Publishable(v) /\ CoverResolves THEN "submitted"
                                                        ELSE "refused"
    /\ UNCHANGED <<note, evidence, embedder, cover>>

-----------------------------------------------------------------------------
(* What happens around it.                                                 *)

Moving == step \notin {"submitted", "refused", "failed"}

Expires(c) ==
    /\ Moving
    /\ evidence' = evidence \ {c}
    /\ UNCHANGED <<note, verdict, embedder, cover, step>>

EmbedderTurns ==
    /\ Moving
    /\ embedder' = ~embedder
    /\ UNCHANGED <<note, verdict, evidence, cover, step>>

CoverDeleted ==
    /\ Moving /\ cover = "stored"
    /\ cover' = "deleted"
    /\ UNCHANGED <<note, verdict, evidence, embedder, step>>

Ended == ~Moving /\ UNCHANGED noteVars

NoteNext ==
    \/ Prepare \/ ProviderFails \/ ProviderAnswers \/ FallsBack
    \/ Deliver \/ Gate \/ FromHot \/ Edit
    \/ CreateDraft \/ ApproveNote \/ SubmitNote
    \/ \E c \in evidence : Expires(c)
    \/ EmbedderTurns \/ CoverDeleted \/ Ended

NoteSpec == NoteInit /\ [][NoteNext]_noteVars

-----------------------------------------------------------------------------
(* Properties.                                                             *)

\* Whatever the reports said in the package its owner brought back, and whatever
\* expired, was deleted or stopped answering since its draft and its approval:
\* the text that is submitted makes no claim without evidence that is valid now
\* and is the request's or the owner's own, holds no banned phrase, echoes none
\* of the notes left in the package literally, nor in meaning when the embedding
\* model answers, and its cover still resolves.
SubmittedNoteStands ==
    [][step' = "submitted" /\ step # "submitted" =>
         LET text == note.text IN
         /\ text.title \cup text.body \subseteq (note.backed \cup note.own) \cap evidence
         /\ ~text.banned
         /\ ~TooClose(text, note.carried, embedder)
         /\ cover # "deleted"]_noteVars

\* "Suspected copying ... blocks the publication": a text that repeats a
\* researched note word by word is not submitted.
SuspectedCopyIsBlocked ==
    step = "submitted" =>
      ~TooClose(note.text, 1..note.found, FALSE)
=============================================================================
