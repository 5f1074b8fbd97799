-------------------------------- MODULE Rules --------------------------------
(***************************************************************************)
(* The rules of a configuration and the lists they read; `init`, which     *)
(* writes a first configuration: I, with variables of its own; and the     *)
(* names and ids that are taken from a message.                            *)
(***************************************************************************)
EXTENDS Filter, Names

CONSTANTS Invocations, Replies, PasswordCmd
VARIABLES opts, step, asked, closed, written, theirs
I == INSTANCE Setup WITH todo <- asked, config <- written
VARIABLE sample   \* what a sender wrote: names of attachments, a subject, the ids of
                  \* ancestors in each header, and the noise between them
setup == <<opts, step, asked, closed, written, theirs>>

\* Whether to overwrite is always settled.
ASSUME InvocationAssumption == \A flags \in Invocations : "force" \in DOMAIN flags

-----------------------------------------------------------------------------
\* Without --force, `init` leaves a configuration that is there, or appears, alone.
NeverClobbered == I!NeverClobbered

\* Every attachment of a message has a file name of its own, which no collector of
\* messages takes for one, and a subject makes one name.
NamesApart == AttachmentsApart(sample.names) /\ SlugSettled(sample.subject)

\* A conversation keeps its root, whatever stands between the ids of its ancestors.
AncestorsSurvive == ChainSurvives(sample.noise, sample.ancestors)
=============================================================================
