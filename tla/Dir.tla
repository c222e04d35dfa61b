-------------------------------- MODULE Dir --------------------------------
(***************************************************************************)
(* Directories and path names: namex, dirlookup and dirlink of fs.c under  *)
(* the system calls open, mkdir, link, unlink, chdir and close.            *)
(*                                                                         *)
(* An inode is locked, looked at and unlocked in one step when no other    *)
(* lock is held; a step that needs a lock waits for it.  Module Icache     *)
(* shows what is taken for granted here: iput frees an inode exactly when  *)
(* its last reference and its last link are gone, and ilock excludes.      *)
(***************************************************************************)
EXTENDS Integers, Sequences, FiniteSets, FiniteSetsExt

CONSTANTS Proc, NInum, Name,
          Calls,   \* the calls made: <<operation, path, second path>>, where a path
                   \* is <<absolute or not, elements>>
          MaxLink

DirAssumption == NInum \in Nat \ {0} /\ MaxLink \in Nat \ {0} /\ {".", ".."} \cap Name = {}

Inum == 1..NInum
ROOTINO == 1
Entry == Name \cup {".", ".."}

VARIABLES
  type, nlink,  \* of every inode
  ents,         \* the entries of a directory, 0 if there is none
  lock,         \* the process that holds I_BUSY
  th            \* a process: its call, the references it holds

vars == <<type, nlink, ents, lock, th>>

NoEnts == [n \in Entry |-> 0]
Dots(self, up) == [NoEnts EXCEPT !["."] = self, ![".."] = up]
Idle(cwd, file) ==
  [pc |-> "idle", op |-> "none", path |-> <<>>, new |-> <<>>, dp |-> 0, ip |-> 0,
   cwd |-> cwd, file |-> file]

Init ==
  /\ type = [i \in Inum |-> IF i = ROOTINO THEN "DIR" ELSE "free"]
  /\ nlink = [i \in Inum |-> IF i = ROOTINO THEN 1 ELSE 0]
  /\ ents = [i \in Inum |-> IF i = ROOTINO THEN Dots(ROOTINO, ROOTINO) ELSE NoEnts]
  /\ lock = [i \in Inum |-> FALSE]
  /\ th = [p \in Proc |-> Idle(ROOTINO, 0)]

-----------------------------------------------------------------------------
Held(t) == UNION {{t[p].dp, t[p].ip, t[p].cwd, t[p].file} : p \in Proc}

\* The inodes that iput frees, given the references and links that are left.
Freed(t, n) == {i \in Inum : n[i] = 0 /\ i \notin Held(t)}

\* A step ends with process p at t, and with these inodes.
Becomes(p, t, ty, n, e) ==
  LET th1 == [th EXCEPT ![p] = t]
      gone == Freed(th1, n)
  IN /\ th' = th1
     /\ nlink' = n
     /\ type' = [i \in Inum |-> IF i \in gone THEN "free" ELSE ty[i]]
     /\ ents' = [i \in Inum |-> IF i \in gone THEN NoEnts ELSE e[i]]

Moves(p, t) == Becomes(p, t, type, nlink, ents)
Returns(p) == Moves(p, Idle(th[p].cwd, th[p].file))

\* Begin a call; file is what open left, for close.
Call(p, op, path, new) ==
  /\ th[p].pc = "idle"
  /\ op \in {"open", "create"} => th[p].file = 0
  /\ Moves(p, [th[p] EXCEPT !.pc = "walk", !.op = op, !.path = path[2], !.new = new,
                            !.dp = IF path[1] THEN ROOTINO ELSE th[p].cwd])
  /\ UNCHANGED lock

ToParent(p) == th[p].op \in {"create", "mkdir", "unlink", "dirlink"}

\* namex: one path element.
namex(p) ==
  LET t == th[p]
      down == ents[t.dp][t.path[1]]
  IN /\ t.pc = "walk" /\ t.path # <<>>
     /\ ~lock[t.dp]
     /\ IF type[t.dp] # "DIR" THEN Moves(p, [t EXCEPT !.pc = "fail", !.dp = 0])
        ELSE IF ToParent(p) /\ Len(t.path) = 1 THEN Moves(p, [t EXCEPT !.pc = "parent"])
        ELSE IF down = 0 THEN Moves(p, [t EXCEPT !.pc = "fail", !.dp = 0])
        ELSE Moves(p, [t EXCEPT !.dp = down, !.path = Tail(t.path)])
     /\ UNCHANGED lock

\* The path is used up: an error for nameiparent, else the inode.
NamexEnds(p) ==
  /\ th[p].pc = "walk" /\ th[p].path = <<>>
  /\ IF ToParent(p) THEN Moves(p, [th[p] EXCEPT !.pc = "fail", !.dp = 0])
     ELSE Moves(p, [th[p] EXCEPT !.pc = "found", !.ip = th[p].dp, !.dp = 0])
  /\ UNCHANGED lock

\* A failed walk ends the call; sys_link goes back for its link count.
Fail(p) ==
  /\ th[p].pc = "fail"
  /\ IF th[p].op = "dirlink" THEN Moves(p, [th[p] EXCEPT !.pc = "bad"]) ELSE Returns(p)
  /\ UNCHANGED lock

-----------------------------------------------------------------------------
\* open of what exists, read-only.
sys_open(p) ==
  /\ th[p].pc = "found" /\ th[p].op = "open"
  /\ ~lock[th[p].ip]
  /\ Moves(p, Idle(th[p].cwd, th[p].ip))
  /\ UNCHANGED lock

sys_close(p) ==
  /\ th[p].pc = "idle" /\ th[p].file # 0
  /\ Moves(p, Idle(th[p].cwd, 0))
  /\ UNCHANGED lock

sys_chdir(p) ==
  /\ th[p].pc = "found" /\ th[p].op = "chdir"
  /\ ~lock[th[p].ip]
  /\ IF type[th[p].ip] # "DIR" THEN Returns(p) ELSE Moves(p, Idle(th[p].ip, th[p].file))
  /\ UNCHANGED lock

\* sys_link: raise the link count, unlock, and walk to the new name's parent.
\* Bound: MaxLink links to an inode.
sys_link(p) ==
  LET t == th[p] IN
  /\ t.pc = "found" /\ t.op = "link"
  /\ ~lock[t.ip]
  /\ IF type[t.ip] = "DIR" \/ nlink[t.ip] = MaxLink THEN Returns(p)
     ELSE Becomes(p, [t EXCEPT !.pc = "walk", !.op = "dirlink", !.path = t.new[2],
                               !.dp = IF t.new[1] THEN ROOTINO ELSE t.cwd],
                  type, [nlink EXCEPT ![t.ip] = @ + 1], ents)
  /\ UNCHANGED lock

\* dirlink into the locked parent, or fail because the name is taken.
LinkEnters(p) ==
  LET t == th[p]  n == t.path[1] IN
  /\ t.pc = "parent" /\ t.op = "dirlink"
  /\ ~lock[t.dp]
  /\ IF ents[t.dp][n] # 0 THEN Moves(p, [t EXCEPT !.pc = "bad", !.dp = 0])
     ELSE Becomes(p, Idle(t.cwd, t.file), type, nlink, [ents EXCEPT ![t.dp][n] = t.ip])
  /\ UNCHANGED lock

LinkBad(p) ==
  /\ th[p].pc = "bad" /\ ~lock[th[p].ip]
  /\ Becomes(p, Idle(th[p].cwd, th[p].file), type, [nlink EXCEPT ![th[p].ip] = @ - 1], ents)
  /\ UNCHANGED lock

-----------------------------------------------------------------------------
Kind(op) == IF op = "mkdir" THEN "DIR" ELSE "FILE"

\* create: the name is taken, so unlock the parent and lock what is there.
CreateExists(p) ==
  LET t == th[p]  i == ents[t.dp][t.path[1]] IN
  /\ t.pc = "parent" /\ t.op \in {"create", "mkdir"}
  /\ ~lock[t.dp] /\ i # 0
  /\ Moves(p, [t EXCEPT !.pc = "exists", !.ip = i, !.dp = 0])
  /\ UNCHANGED lock

CreateOpens(p) ==
  /\ th[p].pc = "exists" /\ ~lock[th[p].ip]
  /\ IF th[p].op = "create" /\ type[th[p].ip] = "FILE"
     THEN Moves(p, Idle(th[p].cwd, th[p].ip)) ELSE Returns(p)
  /\ UNCHANGED lock

\* Mutant: the parent's link count does not go up for "..".
CreateForgetsDotdot(p) ==
  LET t == th[p]  n == t.path[1]  k == Kind(t.op)
      free == {i \in Inum : type[i] = "free"}
      i == Min(free)
  IN /\ t.pc = "parent" /\ t.op \in {"create", "mkdir"}
     /\ ~lock[t.dp] /\ ents[t.dp][n] = 0 /\ free # {}
     /\ Becomes(p, Idle(t.cwd, IF k = "FILE" THEN i ELSE t.file),
                [type EXCEPT ![i] = k],
                [nlink EXCEPT ![i] = 1],
                [ents EXCEPT ![i] = IF k = "DIR" THEN Dots(i, t.dp) ELSE NoEnts, ![t.dp][n] = i])
     /\ UNCHANGED lock

\* A new inode, with "." and ".." if it is a directory, is entered.
create(p) ==
  LET t == th[p]  n == t.path[1]  k == Kind(t.op)
      free == {i \in Inum : type[i] = "free"}
      i == Min(free)
  IN /\ t.pc = "parent" /\ t.op \in {"create", "mkdir"}
     /\ ~lock[t.dp] /\ ents[t.dp][n] = 0 /\ free # {}
     /\ Becomes(p, Idle(t.cwd, IF k = "FILE" THEN i ELSE t.file),
                [type EXCEPT ![i] = k],
                [nlink EXCEPT ![i] = 1, ![t.dp] = IF k = "DIR" THEN @ + 1 ELSE @],
                [ents EXCEPT ![i] = IF k = "DIR" THEN Dots(i, t.dp) ELSE NoEnts, ![t.dp][n] = i])
     /\ UNCHANGED lock

\* Bound: with every inode in use ialloc would panic; the call is given up.
CreateNoRoom(p) ==
  /\ th[p].pc = "parent" /\ th[p].op \in {"create", "mkdir"}
  /\ ents[th[p].dp][th[p].path[1]] = 0 /\ \A i \in Inum : type[i] # "free"
  /\ Returns(p)
  /\ UNCHANGED lock

-----------------------------------------------------------------------------
\* sys_unlink locks the parent and finds the entry; it keeps the parent locked
\* while it waits for the inode.
UnlinkFinds(p) ==
  LET t == th[p]  n == t.path[1] IN
  /\ t.pc = "parent" /\ t.op = "unlink"
  /\ ~lock[t.dp]
  /\ IF n \notin Name \/ ents[t.dp][n] = 0
     THEN Returns(p) /\ UNCHANGED lock
     ELSE /\ Moves(p, [t EXCEPT !.pc = "erase", !.ip = ents[t.dp][n]])
          /\ lock' = [lock EXCEPT ![t.dp] = TRUE]

Empty(i) == \A n \in Name : ents[i][n] = 0

\* A directory must be empty; the entry goes, and with a directory its "..".
sys_unlink(p) ==
  LET t == th[p]  dir == type[t.ip] = "DIR" IN
  /\ t.pc = "erase" /\ ~lock[t.ip]
  /\ lock' = [lock EXCEPT ![t.dp] = FALSE]
  /\ IF dir /\ ~Empty(t.ip) THEN Returns(p)
     ELSE Becomes(p, Idle(t.cwd, t.file), type,
                  [nlink EXCEPT ![t.dp] = IF dir THEN @ - 1 ELSE @, ![t.ip] = @ - 1],
                  [ents EXCEPT ![t.dp][t.path[1]] = 0])

-----------------------------------------------------------------------------
Step(p) ==
  \/ namex(p) \/ NamexEnds(p) \/ Fail(p)
  \/ sys_open(p) \/ sys_chdir(p) \/ sys_link(p) \/ LinkEnters(p) \/ LinkBad(p)
  \/ CreateExists(p) \/ CreateOpens(p) \/ create(p) \/ CreateNoRoom(p)
  \/ UnlinkFinds(p) \/ sys_unlink(p)

Next == \E p \in Proc :
  \/ Step(p) \/ sys_close(p)
  \/ \E c \in Calls : Call(p, c[1], c[2], c[3])

Spec == Init /\ [][Next]_vars

-----------------------------------------------------------------------------
TypeOK ==
  /\ type \in [Inum -> {"free", "DIR", "FILE"}] /\ nlink \in [Inum -> Nat]
  /\ ents \in [Inum -> [Entry -> 0..NInum]] /\ lock \in [Inum -> BOOLEAN]
  /\ \A p \in Proc : {th[p].dp, th[p].ip, th[p].file} \subseteq 0..NInum /\ th[p].cwd \in Inum

\* The directories that a path from the root leads to.
Reachable ==
  LET reach[k \in 0..NInum] ==
        IF k = 0 THEN {ROOTINO}
        ELSE reach[k - 1] \cup
             {i \in Inum : type[i] = "DIR" /\ \E d \in reach[k - 1], n \in Name : ents[d][n] = i}
  IN reach[NInum]

\* Where the directories R have an entry for i.
Named(R, i) == {<<d, n>> \in R \X Name : ents[d][n] = i}

\* Whoever holds a reference, in a path walk, a file or cwd, holds an allocated
\* inode: ilock never finds one without a type.
HeldAllocated == \A i \in Held(th) \ {0} : type[i] # "free"

\* An inode that a path leads to is never freed: its links cover its names (the
\* root counts as named once) and the ".." of its subdirectories.
LinksCover ==
  \A R \in {Reachable} : \A i \in Inum : i = ROOTINO \/ Named(R, i) # {} =>
    /\ type[i] # "free"
    /\ nlink[i] >= (IF i = ROOTINO THEN 1 ELSE Cardinality(Named(R, i)))
                   + Cardinality({d \in R \ {ROOTINO} : ents[d][".."] = i})

\* The directories are a tree: one name each, and ".." leads to where it is.
DirTree ==
  \A R \in {Reachable} : \A d \in R \ {ROOTINO} :
    /\ Cardinality(Named(R, d)) = 1
    /\ ents[d]["."] = d
    /\ \A e \in Named(R, d) : ents[d][".."] = e[1]
=============================================================================
