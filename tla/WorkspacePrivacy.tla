-------------------------- MODULE WorkspacePrivacy --------------------------
(***************************************************************************)
(* Which paths of a workspace the read tools may show                      *)
(* (tools/workspace_privacy.py, get_file_content.py, get_files_info.py):   *)
(* the catalog, the ignore files and the exceptions declared for a run,    *)
(* over a chain of runs on one session, while other programs, or the write *)
(* tool, change the names and the ignore files.                            *)
(*                                                                         *)
(* A path is the sequence of its components, resolved and in one case.     *)
(* The last name of a path may be a link.  A directory has other names     *)
(* too: the one from the root of the file system, one that goes up and     *)
(* down again, a link of a directory that nobody turns (and whose own      *)
(* entry is left out).  What is listed is the directory a name leads to,   *)
(* but its entries are classified below the name that was asked for.       *)
(***************************************************************************)
EXTENDS Naturals, FiniteSets, SequencesExt

CONSTANTS
  Paths,               \* the paths of the workspace, its root left out
  AbsoluteSuffixes,    \* AP-01 to AP-05: how a path of absolute denial ends
  AbsoluteSequences,   \* AP-06: what it contains
  SensitiveSuffixes,   \* SP-01 to SP-03, SP-06, SP-07: how a sensitive path ends
  SensitiveSequences,  \* SP-04, SP-05: what it contains
  OtherNames,          \* names of directories that are not their paths
  IgnoreFiles,         \* what .gitignore files and .orbitrelayignore may say
  NoPolicy,            \* nothing is cached
  MaxAlterations       \* bound: changes of names and ignore files

\* Everything that is compared component by component: a name is what _normalize_relative
\* makes of it, `/root/ws/d` is <<root, ws, d>> and `../ws/d` is <<ws, d>>.
Compared ==
  Paths \cup {n.asked : n \in OtherNames} \cup AbsoluteSuffixes \cup AbsoluteSequences
    \cup SensitiveSuffixes \cup SensitiveSequences

Component == UNION {Range(p) : p \in Compared}

\* What the policy keeps of the ignore files.  Without a root .gitignore that can be read it
\* has no pattern of any .gitignore; nested ones that cannot be read are passed over.
RulesOf(f) ==
  [git |-> IF <<>> \in f.unread THEN <<>> ELSE SelectSeq(f.git, LAMBDA r : r.at \notin f.unread),
   orbit |-> f.orbit, valid |-> f.valid]

ASSUME PathsAssumption ==
  /\ Compared \subseteq Seq(Component)
  /\ \A p \in Paths : Len(p) > 0 /\ \A n \in 1..(Len(p) - 1) : SubSeq(p, 1, n) \in Paths
  /\ \A n \in OtherNames : n.path \in Paths \cup {<<>>}
ASSUME IgnoreFilesAssumption ==
  \A f \in IgnoreFiles :
    /\ DOMAIN f = {"git", "orbit", "valid", "unread"} /\ f.valid \in BOOLEAN
    /\ \A i \in DOMAIN f.git : DOMAIN f.git[i] = {"at", "path", "slash", "negated"}
    /\ \A r \in f.orbit : DOMAIN r = {"at", "path", "slash"} /\ r.at = <<>>
ASSUME AlterationsAssumption ==
  MaxAlterations \in Nat /\ NoPolicy \notin {RulesOf(f) : f \in IgnoreFiles}

VARIABLES
  kind,         \* what each path is: "none", "file" or "directory"
  leadsTo,      \* the path a link leads to; the path itself otherwise
  ignoring,     \* the ignore files
  phase,        \* "declare" before a run, "run" in it
  exact,        \* exact_files
  subtrees,     \* subtrees
  cached,       \* the policy in the cache of the process
  mark,         \* the descriptors stored with the session
  reading,      \* the call of a read tool
  alterations,  \* how many changes were made
  relied,       \* for the properties: what runs that marked the session were authorized for
  denied        \* for the properties: what was denied in this run

authorization == <<exact, subtrees>>
workspace == <<kind, leadsTo, ignoring, alterations>>
privacy == <<workspace, phase, authorization, cached, mark, reading, relied, denied>>

Scopes == {"file", "subtree"}
NoCall == [does |-> "none"]

Own(p) == [asked |-> p, path |-> p]
DirectoryNames == OtherNames \cup {Own(p) : p \in Paths \cup {<<>>}}

-----------------------------------------------------------------------------
(* Classification                                                          *)

EndsWithOne(p, suffixes) == \E s \in suffixes : IsSuffix(s, p)
ContainsOne(p, sequences) ==
  \E s \in sequences, n \in 0..Len(p) : IsPrefix(s, SubSeq(p, n + 1, Len(p)))

AbsoluteDeny(p) == EndsWithOne(p, AbsoluteSuffixes) \/ ContainsOne(p, AbsoluteSequences)
SensitiveBuiltin(p) == EndsWithOne(p, SensitiveSuffixes) \/ ContainsOne(p, SensitiveSequences)

\* A pattern with a slash before its end matches from the root, another one at any depth; one
\* of a nested .gitignore is put behind the name of its directory and a slash.  One that
\* matches a directory matches what is in it.
Matches(r, p) ==
  IF r.slash \/ r.at # <<>> THEN IsPrefix(r.at \o r.path, p) ELSE ContainsOne(p, {r.path})

\* The last pattern that matches decides.
GitIgnores(rules, p) ==
  LET Matching == {i \in DOMAIN rules : Matches(rules[i], p)} IN
    \E i \in Matching : ~rules[i].negated /\ \A j \in Matching : j <= i

\* Under an .orbitrelayignore that is not valid (or cannot be read) nothing is ignored.
Ignored(policy, p) ==
  policy.valid /\ ((\E r \in policy.orbit : Matches(r, p)) \/ GitIgnores(policy.git, p))

Sensitive(policy, p) == SensitiveBuiltin(p) \/ Ignored(policy, p)

Authorizes(p) == p \in exact \/ \E s \in subtrees : IsPrefix(s, p)

Allowed_AuthorityFirst(policy, p) ==
  Authorizes(p) \/ ~(AbsoluteDeny(p) \/ Sensitive(policy, p))

Allowed(policy, p) == ~AbsoluteDeny(p) /\ (Sensitive(policy, p) => Authorizes(p))

\* workspace_privacy_policy: the ignore files are read once.
InForce_Reloaded == RulesOf(ignoring)

InForce == IF cached = NoPolicy THEN RulesOf(ignoring) ELSE cached

-----------------------------------------------------------------------------
PrivacyInit ==
  /\ kind = [p \in Paths |-> IF \E q \in Paths : q # p /\ IsPrefix(p, q) THEN "directory" ELSE "file"]
  /\ leadsTo = [p \in Paths |-> p]
  /\ ignoring \in IgnoreFiles
  /\ phase = "declare"
  /\ exact = {} /\ subtrees = {}
  /\ cached = NoPolicy
  /\ mark = {}
  /\ reading = NoCall
  /\ alterations = 0
  /\ relied = {} /\ denied = {}

-----------------------------------------------------------------------------
(* A run                                                                   *)

\* declare_run_exception; one that is refused ends the command.  Setting the authorization
\* clears the cache.
Declare(p, scope) ==
  /\ phase = "declare"
  /\ LET q == leadsTo[p] IN
       /\ ~AbsoluteDeny(q)
       /\ kind[q] = IF scope = "file" THEN "file" ELSE "directory"
       /\ exact' = IF scope = "file" THEN exact \cup {q} ELSE exact
       /\ subtrees' = IF scope = "subtree" THEN subtrees \cup {q} ELSE subtrees
  /\ cached' = NoPolicy
  /\ UNCHANGED <<workspace, phase, mark, reading, relied, denied>>

\* authority_covers: what is left of a descriptor is its path, the slash that told a
\* subtree is stripped before it is looked for.
Covers_One(descriptors) == descriptors = {} \/ \E d \in descriptors : Authorizes(d.path)

Covers(descriptors) == \A d \in descriptors : Authorizes(d.path)

BeginRun ==
  /\ phase = "declare"
  /\ Covers(mark)
  /\ phase' = "run"
  /\ UNCHANGED <<workspace, authorization, cached, mark, reading, relied, denied>>

\* mark_sensitive after a checkpoint of a run that reads sensitive files and may keep them.
Mark ==
  /\ phase = "run" /\ exact \cup subtrees # {}
  /\ mark' = [path : exact, scope : {"file"}] \cup [path : subtrees, scope : {"subtree"}]
  /\ relied' = relied \cup {p \in Paths : Authorizes(p)}
  /\ UNCHANGED <<workspace, phase, authorization, cached, reading, denied>>

EndRun ==
  /\ phase' = "declare"
  /\ exact' = {} /\ subtrees' = {}
  /\ cached' = NoPolicy
  /\ reading' = NoCall
  /\ denied' = {}
  /\ UNCHANGED <<workspace, mark, relied>>

-----------------------------------------------------------------------------
(* The read tools                                                          *)

\* deny_protected_read, when the call is prepared and again when it is made, and
\* deny_protected_listing: of the path that the name leads to.
Check(name, does) ==
  /\ phase = "run" /\ reading.does \in {"none", "answered"}
  /\ cached' = InForce
  /\ LET q == leadsTo[name.path] IN
       IF InForce.valid /\ Allowed(InForce, q)
         THEN /\ reading' = [does |-> does, name |-> name, swapped |-> FALSE]
              /\ UNCHANGED denied
         ELSE /\ reading' = NoCall
              /\ denied' = denied \cup {q}
  /\ UNCHANGED <<workspace, phase, authorization, mark, relied>>

\* What is shown: paths, each with the one it was classified as.
Answer(shown) == reading' = [does |-> "answered", shown |-> shown, swapped |-> reading.swapped]

\* The name is resolved again, and opened.
Open ==
  /\ reading.does = "open"
  /\ LET q == leadsTo[reading.name.path] IN
       Answer(IF kind[q] = "file" THEN {[path |-> q, as |-> q]} ELSE {})
  /\ UNCHANGED <<workspace, phase, authorization, cached, mark, relied, denied>>

\* os.listdir of the directory that the name leads to.
Entries(d) == {c \in Component : d \o <<c>> \in Paths /\ kind[d \o <<c>>] # "none"}

\* filter_listing_names: each is classified as what it would be below the name asked for.
Discoverable(p) == Allowed(InForce, p)

Listed(name) ==
  {[path |-> name.path \o <<c>>, as |-> name.asked \o <<c>>] :
     c \in {c \in Entries(name.path) : Discoverable(name.asked \o <<c>>)}}

\* The root of the workspace, <<>>, is not classified.
List(name) ==
  /\ phase = "run"
  /\ \/ name.path = <<>> /\ reading.does \in {"none", "answered"} /\ InForce.valid
        /\ reading' = [does |-> "answered", shown |-> Listed(name), swapped |-> FALSE]
     \/ reading.does = "list" /\ name = reading.name
        /\ Answer(IF kind[name.path] = "directory" THEN Listed(name) ELSE {})
  /\ cached' = InForce
  /\ UNCHANGED <<workspace, phase, authorization, mark, relied, denied>>

-----------------------------------------------------------------------------
(* The workspace changes: other programs, and write_file                   *)

Alter(change) ==
  /\ alterations < MaxAlterations /\ alterations' = alterations + 1
  /\ change
  /\ UNCHANGED <<phase, authorization, cached, mark, relied, denied>>

EditIgnoreFiles ==
  /\ \E f \in IgnoreFiles \ {ignoring} : ignoring' = f
  /\ UNCHANGED <<kind, leadsTo, reading>>

\* A file becomes a link to another, or a file again.
Relink(p) ==
  /\ kind[p] = "file"
  /\ \E q \in Paths : kind[q] = "file" /\ leadsTo[q] = q /\ q # leadsTo[p]
                      /\ leadsTo' = [leadsTo EXCEPT ![p] = q]
  /\ reading' = IF reading.does = "open" /\ reading.name = Own(p)
                THEN [reading EXCEPT !.swapped = TRUE] ELSE reading
  /\ UNCHANGED <<kind, ignoring>>

\* A directory is removed with what is in it, and a file made in its place.
DirectoryBecomesFile(d) ==
  /\ kind[d] = "directory"
  /\ \A p \in Paths : IsPrefix(d, leadsTo[p]) => IsPrefix(d, p)
  /\ kind' = [p \in Paths |-> IF p = d THEN "file" ELSE IF IsPrefix(d, p) THEN "none" ELSE kind[p]]
  /\ leadsTo' = [p \in Paths |-> IF IsPrefix(d, p) THEN p ELSE leadsTo[p]]
  /\ UNCHANGED <<ignoring, reading>>

PrivacyNext ==
  \/ \E p \in Paths, scope \in Scopes : Declare(p, scope)
  \/ BeginRun \/ Mark \/ EndRun
  \/ \E p \in Paths : Check(Own(p), "open")
  \/ \E name \in DirectoryNames :
       name.path # <<>> /\ kind[name.path] = "directory" /\ Check(name, "list")
  \/ Open
  \/ \E name \in DirectoryNames : List(name)
  \/ Alter(EditIgnoreFiles)
  \/ \E p \in Paths : Alter(Relink(p)) \/ Alter(DirectoryBecomesFile(p))

PrivacySpec == PrivacyInit /\ [][PrivacyNext]_privacy

-----------------------------------------------------------------------------
(* Properties                                                              *)

\* Nothing is shown under an .orbitrelayignore that is not valid.  What a read, or a listing
\* under any name that ends in the path of the directory, shows is not absolutely denied, and
\* is sensitive by the catalog only under an exception of this run.  What the ignore
\* files that the run read have sensitive is held back so by reads and by listings under the path
\* itself, and is not by listings under other names (ListedAsRead).  A name that is turned to
\* another file between the check and the opening escapes: it is resolved twice.
ShownIsAllowed ==
  reading.does = "answered" /\ reading.shown # {} /\ ~reading.swapped =>
    /\ cached.valid
    /\ \A e \in reading.shown :
         /\ IsSuffix(e.path, e.as) =>
              ~AbsoluteDeny(e.path) /\ (SensitiveBuiltin(e.path) => Authorizes(e.as))
         /\ e.as = e.path => (Ignored(cached, e.path) => Authorizes(e.path))

\* What was denied once is neither read, under whatever name, nor listed under the path of its
\* directory later in the same run, whatever is written to the ignore files meanwhile.
DeniedStaysDenied ==
  reading.does = "answered" /\ ~reading.swapped =>
    \A e \in reading.shown : e.as = e.path => e.path \notin denied

\* What the specification of listings says: every entry is classified like a direct read of it.
\* It is not: a pattern that matches from the root does not match below a name that is
\* not the path of the directory.
ListedAsRead ==
  reading.does = "answered" /\ ~reading.swapped =>
    \A e \in reading.shown : Allowed(cached, e.path)

\* A run on a marked session is authorized for whatever the earlier runs were authorized for when
\* they marked it, over any chain of runs, except below a directory that is a file now and
\* was declared as one: its descriptor is taken for that of the file.
RenewedAuthority ==
  phase = "run" =>
    \A p \in relied : Authorizes(p) \/ \E f \in exact : IsPrefix(f, p)
=============================================================================
