------------------------------- MODULE Process -------------------------------
(***************************************************************************)
(* The parts of the library that keep nothing in common: the variable area *)
(* is chosen in the beginning and only the actions of that area happen.    *)
(* Every behaviour of one of the components is a behaviour of Process.     *)
(***************************************************************************)
EXTENDS FlagTables, Results, Rlimit, Wait4, Fallocate, Readlinkat, Numbers, Build, Endian

VARIABLE area

Areas == {"flags", "results", "rlimit", "wait4", "fallocate", "readlinkat", "numbers", "build",
          "endian"}

processVars == <<area, flagsVars, resultsVars, rlimitVars, wait4Vars, fallocateVars,
                 readlinkatVars, numbersVars, buildVars, endianVars>>

\* Only a build looks at many platforms: elsewhere the library is there.  What
\* the other parts start with is not varied where it is not used.
ProcessInit ==
  /\ area \in Areas
  /\ FlagsInit /\ ResultsInit /\ RlimitInit /\ Wait4Init /\ FallocateInit
  /\ ReadlinkatInit /\ NumbersInit /\ BuildInit /\ EndianInit
  /\ area # "build" => os = "unix" /\ found = features /\ disabled = {}
  /\ area # "endian" => host = "little" /\ kind = "bytes" /\ buf = CHOOSE b \in Buffers : TRUE
  /\ area # "flags" => \A n \in Names : files[n] = Absent

InFlags ==
  /\ area = "flags" /\ FlagsNext
  /\ UNCHANGED <<area, resultsVars, rlimitVars, wait4Vars, fallocateVars, readlinkatVars,
                 numbersVars, buildVars, endianVars>>

InResults ==
  /\ area = "results" /\ ResultsNext
  /\ UNCHANGED <<area, flagsVars, rlimitVars, wait4Vars, fallocateVars, readlinkatVars,
                 numbersVars, buildVars, endianVars>>

InRlimit ==
  /\ area = "rlimit" /\ RlimitNext
  /\ UNCHANGED <<area, flagsVars, resultsVars, wait4Vars, fallocateVars, readlinkatVars,
                 numbersVars, buildVars, endianVars>>

InWait4 ==
  /\ area = "wait4" /\ Wait4Next
  /\ UNCHANGED <<area, flagsVars, resultsVars, rlimitVars, fallocateVars, readlinkatVars,
                 numbersVars, buildVars, endianVars>>

InFallocate ==
  /\ area = "fallocate" /\ FallocateNext
  /\ UNCHANGED <<area, flagsVars, resultsVars, rlimitVars, wait4Vars, readlinkatVars,
                 numbersVars, buildVars, endianVars>>

InReadlinkat ==
  /\ area = "readlinkat" /\ ReadlinkatNext
  /\ UNCHANGED <<area, flagsVars, resultsVars, rlimitVars, wait4Vars, fallocateVars,
                 numbersVars, buildVars, endianVars>>

InNumbers ==
  /\ area = "numbers" /\ NumbersNext
  /\ UNCHANGED <<area, flagsVars, resultsVars, rlimitVars, wait4Vars, fallocateVars,
                 readlinkatVars, buildVars, endianVars>>

InBuild ==
  /\ area = "build" /\ BuildNext
  /\ UNCHANGED <<area, flagsVars, resultsVars, rlimitVars, wait4Vars, fallocateVars,
                 readlinkatVars, numbersVars, endianVars>>

InEndian ==
  /\ area = "endian" /\ EndianNext
  /\ UNCHANGED <<area, flagsVars, resultsVars, rlimitVars, wait4Vars, fallocateVars,
                 readlinkatVars, numbersVars, buildVars>>

ProcessNext ==
  \/ InFlags \/ InResults \/ InRlimit \/ InWait4 \/ InFallocate \/ InReadlinkat
  \/ InNumbers \/ InBuild \/ InEndian

ProcessSpec == ProcessInit /\ [][ProcessNext]_processVars
=============================================================================
