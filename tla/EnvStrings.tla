----------------------------- MODULE EnvStrings -----------------------------
(***************************************************************************)
(* The string operations of VMLCoreAssemblies/environment.c.  A C string   *)
(* is a sequence of characters without its terminator; an entry of the     *)
(* environment is the string "name=value" that snprintf builds.  Reading a *)
(* name back out of an entry is done in two different ways by the code:    *)
(* VMLGetEnv and VMLUnsetEnv compare strlen(name) characters and then look *)
(* for '=', VMLSetEnv compares strlen(name)+1 characters of the new entry. *)
(***************************************************************************)
EXTENDS Naturals, Sequences, SequencesExt

CONSTANTS Char,   \* the characters of a C string
          EQ,     \* the character '='
          NULL    \* the null pointer

ASSUME CharAssumption == EQ \in Char
ASSUME NullAssumption == NULL \notin Seq(Char)

CString == Seq(Char)

(* Definitions whose names end in _bug are the code with a plausible       *)
(* mistake in it; they show that a property would notice.                  *)

(* Accepts names with '=' in them.                                         *)
ValidName_bug(name) == name # NULL /\ name # <<>>

(* !(!name || *name == '\0' || strchr(name, '=') != NULL)                  *)
ValidName(name) ==
  /\ name # NULL
  /\ name # <<>>
  /\ ~ Contains(name, EQ)

(* snprintf(new_variable, len, "%s=%s", name, value)                       *)
NewVariable(name, value) == name \o <<EQ>> \o value

(* Forgets to look for '=' after the name.                                 *)
NameThenEq_bug(e, name) == IsPrefix(name, e)

(* strncmp(e, name, len) == 0 && e[len] == '=', with len = strlen(name)    *)
NameThenEq(e, name) ==
  /\ IsPrefix(name, e)
  /\ Len(e) > Len(name)
  /\ e[Len(name) + 1] = EQ

(* strncmp(e, new_variable, len) == 0, with len = value - name, that is    *)
(* strlen(name) + 1: the '=' of the new entry takes part in the comparison *)
SameVariable(e, name) == IsPrefix(name \o <<EQ>>, e)

(* &e[len + 1]                                                             *)
ValueAfter(e, name) == SubSeq(e, Len(name) + 2, Len(e))

=============================================================================
