----------------------------- MODULE ResourceTree -----------------------------
(***************************************************************************)
(* The resources main_application creates before it registers, and the     *)
(* tree add_resource (source/resource.cpp) puts them in: a list of         *)
(* objects, with instances, with resources.  An object or an instance is   *)
(* created when a first resource needs it and found again after that; the  *)
(* application keeps pointers into the tree, the server goes by the path.  *)
(*                                                                         *)
(* Creating a resource that exists returns a null pointer, which           *)
(* add_resource uses; main_application asks for every path once.           *)
(***************************************************************************)
EXTENDS Integers, Sequences

CONSTANT Beacons   \* MAX_CONNECTED_BEACONS

ASSUME BeaconsAssumption == Beacons \in Nat

VARIABLES
    list,      \* _obj_list
    handles,   \* what add_cloud_resource has returned, call by call
    offered    \* what add_objects has given to the library, or nothing yet

treeVars == <<list, handles, offered>>

\* The arguments of one call of add_cloud_resource.
Wish(object, instance, resource, operations, cb) ==
    [path |-> <<object, instance, resource>>, operations |-> operations, cb |-> cb]

Script ==
    << Wish(5000, 0, 1, {"POST"}, "unregister"),
       Wish(5000, 0, 2, {"POST"}, "factory_reset") >>
    \o [n \in 1 .. Beacons |-> Wish(3303, n - 1, 5700, {"GET", "PUT"}, "NULL")]
    \o << Wish(3201, 0, 5853, {"GET", "PUT"}, "NULL") >>

Empty == <<>>

TreeInit == list = <<>> /\ handles = <<>> /\ offered = <<>>

-----------------------------------------------------------------------------
(* add_resource                                                            *)

\* The objects with this number; the search stops at the first.
FindObject(objects, id) == {k \in DOMAIN objects : objects[k].id = id}

Where(objects, id) ==
    CHOOSE k \in FindObject(objects, id) :
        \A j \in FindObject(objects, id) : k <= j

\* A PUT and a POST callback cannot both be set.
Resource(w) ==
    [operations |-> w.operations,
     value_updated |-> IF "PUT" \in w.operations THEN w.cb ELSE "NULL",
     execute |-> IF w.operations \cap {"PUT", "POST"} = {"POST"} THEN w.cb ELSE "NULL"]

WithObject(objects, id) ==
    IF FindObject(objects, id) = {}
    THEN Append(objects, [id |-> id, instances |-> Empty])
    ELSE objects

With(f, key, value) ==
    [n \in DOMAIN f \cup {key} |-> IF n = key THEN value ELSE f[n]]

\* The tree with the resource in it, and where it has been put.
add_resource(objects, w) ==
    LET found == WithObject(objects, w.path[1])
        k == IF FindObject(objects, w.path[1]) = {}
             THEN Len(found) ELSE Where(objects, w.path[1])
        instances == found[k].instances
        old == IF w.path[2] \in DOMAIN instances THEN instances[w.path[2]] ELSE Empty
        new == With(old, w.path[3], Resource(w))
    IN  [list |-> [found EXCEPT ![k].instances = With(instances, w.path[2], new)],
         handle |-> <<k, w.path[2], w.path[3]>>]

\* The next call of the script.
AddCloudResource ==
    /\ offered = <<>> /\ Len(handles) < Len(Script)
    /\ LET r == add_resource(list, Script[Len(handles) + 1])
       IN  list' = r.list /\ handles' = Append(handles, r.handle)
    /\ UNCHANGED offered

\* Mutation of AddObjects: before the last resource has been created.
AddObjects_Early ==
    /\ offered = <<>> /\ Len(handles) >= Len(Script) - 1
    /\ offered' = list
    /\ UNCHANGED <<list, handles>>

\* The start of register_and_connect.
AddObjects ==
    /\ offered = <<>> /\ Len(handles) = Len(Script)
    /\ offered' = list
    /\ UNCHANGED <<list, handles>>

-----------------------------------------------------------------------------
(* What the server finds                                                   *)

\* The objects of a list that have something at a path.
At(objects, path) ==
    {k \in DOMAIN objects :
        /\ objects[k].id = path[1]
        /\ path[2] \in DOMAIN objects[k].instances
        /\ path[3] \in DOMAIN objects[k].instances[path[2]]}

Offers(w) ==
    \E k \in At(offered, w.path) :
        offered[k].instances[w.path[2]][w.path[3]].operations = w.operations

Executes(path, cb) ==
    \E k \in At(offered, path) : offered[k].instances[path[2]][path[3]].execute = cb

-----------------------------------------------------------------------------
(* Properties                                                              *)

\* A registered device offers every resource of main_application, at one
\* place, with the operations and the callback asked for, and that place is
\* the one the application keeps a pointer to: what it writes through
\* beacon_data_res_tbl[i] is what the server reads at 3303/i/5700.
TreeIsComplete ==
    offered # <<>> =>
        /\ \A j, k \in DOMAIN offered : offered[j].id = offered[k].id => j = k
        /\ \A n \in DOMAIN Script :
              /\ Offers(Script[n])
              /\ handles[n] \in {<<k, Script[n].path[2], Script[n].path[3]>> :
                                    k \in At(offered, Script[n].path)}
              /\ "POST" \in Script[n].operations
                    => Executes(Script[n].path, Script[n].cb)
=============================================================================
