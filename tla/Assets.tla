--------------------------------- MODULE Assets ---------------------------------
(***************************************************************************)
(* The private asset store (storage/assets.py) and the asset library that  *)
(* copies from it (operations/assets.py), with the library's rows in       *)
(* SQLite and PostgreSQL.                                                  *)
(*                                                                         *)
(* Actors are the processes that serve requests over one directory; every  *)
(* write of a file, every unlink and every statement is a step, between    *)
(* which another process runs or this one dies.  Bytes are abstracted to   *)
(* the upload they came from.                                              *)
(***************************************************************************)
EXTENDS Integers, FiniteSets, Sequences

CONSTANTS
    AssetServers, \* processes
    Kinds,        \* file suffixes of uploads, "json" among them
    MaxUploads,   \* bound of the instance
    Mirrored,     \* whether the library is also kept in PostgreSQL
    NoAsset      \* no file, no task

AssetIds == 1 .. MaxUploads
Bytes(id) == [what |-> "bytes", of |-> id]
Metadata(id) == [what |-> "metadata", of |-> id]
Digests == {Bytes(id) : id \in AssetIds} \cup {Metadata(id) : id \in AssetIds}
AssetJobs == [at : {"describe", "unlink"}, id : AssetIds]
             \cup [at : {"absent", "copy", "save", "insert", "mirror"}, digest : Digests]

ASSUME AssetAssumption ==
    /\ MaxUploads \in Nat /\ "json" \in Kinds
    /\ NoAsset \notin {"partial", "whole"} /\ NoAsset \notin Digests /\ NoAsset \notin AssetJobs

VARIABLES
    uploads,     \* the suffix of each upload so far, by asset id
    assetFiles,  \* the store's directory: content of each path
    library,     \* the library's directory: "partial" or "whole" per digest
    assetRows,   \* digests with a row in SQLite
    mirrorRows,  \* digests with a row in PostgreSQL
    acked,       \* assets whose upload was answered
    cut,         \* digests whose copy a crash has cut short
    job          \* what each server is in the middle of

assetVars == <<uploads, assetFiles, library, assetRows, mirrorRows, acked, cut, job>>

-----------------------------------------------------------------------------
Paths == AssetIds \X Kinds

\* Where save_bytes puts the content, and where it puts the metadata.
ContentPath(id) == <<id, uploads[id]>>
MetadataPath(id) == <<id, "json">>

HasMetadata(id) == assetFiles[MetadataPath(id)] = Metadata(id)

\* resolve: the metadata names the path, which must be a file.
Resolves(id) == HasMetadata(id) /\ assetFiles[ContentPath(id)] # NoAsset

\* The library names its file by the digest of what it reads.
Digest(id) == assetFiles[ContentPath(id)]

AssetInit ==
    /\ uploads = <<>>
    /\ assetFiles = [p \in Paths |-> NoAsset]
    /\ library = [d \in Digests |-> NoAsset]
    /\ assetRows = {} /\ mirrorRows = {} /\ acked = {} /\ cut = {}
    /\ job = [p \in AssetServers |-> NoAsset]

Works(p, next) == job' = [job EXCEPT ![p] = next]
libraryVars == <<library, assetRows, mirrorRows, cut>>

-----------------------------------------------------------------------------
\* save_bytes: the content is written atomically under a new id ...
Upload(p, kind) ==
    /\ job[p] = NoAsset /\ Len(uploads) < MaxUploads
    /\ LET id == Len(uploads) + 1
       IN  /\ uploads' = Append(uploads, kind)
           /\ assetFiles' = [assetFiles EXCEPT ![<<id, kind>>] = Bytes(id)]
           /\ Works(p, [at |-> "describe", id |-> id])
    /\ UNCHANGED <<acked, libraryVars>>

\* ... and then its metadata, after which the client learns the id.
Describe(p) ==
    /\ job[p] # NoAsset /\ job[p].at = "describe"
    /\ LET id == job[p].id
       IN  /\ assetFiles' = [assetFiles EXCEPT ![MetadataPath(id)] = Metadata(id)]
           /\ acked' = acked \cup {id}
    /\ Works(p, NoAsset)
    /\ UNCHANGED <<uploads, libraryVars>>

\* delete: read the metadata, unlink the content ...
Delete(p, id) ==
    /\ job[p] = NoAsset /\ id \in acked /\ HasMetadata(id)
    /\ assetFiles' = [assetFiles EXCEPT ![ContentPath(id)] = NoAsset]
    /\ Works(p, [at |-> "unlink", id |-> id])
    /\ UNCHANGED <<uploads, acked, libraryVars>>

\* ... and unlink the metadata.
Unlink(p) ==
    /\ job[p] # NoAsset /\ job[p].at = "unlink"
    /\ assetFiles' = [assetFiles EXCEPT ![MetadataPath(job[p].id)] = NoAsset]
    /\ Works(p, NoAsset)
    /\ UNCHANGED <<uploads, acked, libraryVars>>

-----------------------------------------------------------------------------
\* import_asset_id: resolve the asset, hash it, and see whether the library has a
\* file of that name already.
InLibraryAnyway(d) == TRUE
InLibrary(d) == library[d] # NoAsset

Import(p, id) ==
    /\ job[p] = NoAsset /\ id \in acked /\ Resolves(id)
    /\ LET d == Digest(id) IN
       Works(p, [at |-> IF InLibrary(d) THEN "save" ELSE "absent", digest |-> d])
    /\ UNCHANGED <<uploads, assetFiles, acked, libraryVars>>

\* copy2 opens the asset, which may be deleted by now, and empties the file it
\* copies to, which another server may be copying or have copied.
StartCopy(p) ==
    /\ job[p] # NoAsset /\ job[p].at = "absent"
    /\ LET d == job[p].digest IN
       IF Digest(d.of) = NoAsset
       THEN Works(p, NoAsset) /\ UNCHANGED library
       ELSE /\ library' = [library EXCEPT ![d] = "partial"]
            /\ Works(p, [at |-> "copy", digest |-> d])
    /\ UNCHANGED <<uploads, assetFiles, assetRows, mirrorRows, acked, cut>>

\* The copy is complete; what another copy emptied meanwhile has a hole until
\* that one is, or for good.
CopiedBy(p, d) == job[p] # NoAsset /\ job[p].at = "copy" /\ job[p].digest = d
Copy(p) ==
    /\ job[p] # NoAsset /\ job[p].at = "copy"
    /\ LET d == job[p].digest IN
       /\ \E content \in {"partial", "whole"} :
             /\ content = "partial" => d \in cut \/ \E q \in AssetServers \ {p} : CopiedBy(q, d)
             /\ library' = [library EXCEPT ![d] = content]
       /\ Works(p, [at |-> "save", digest |-> d])
    /\ UNCHANGED <<uploads, assetFiles, assetRows, mirrorRows, acked, cut>>

\* save_asset: an existing row is returned, otherwise one is inserted.
LookUp(p) ==
    /\ job[p] # NoAsset /\ job[p].at = "save"
    /\ Works(p, [at |-> IF job[p].digest \in assetRows THEN "mirror" ELSE "insert",
                 digest |-> job[p].digest])
    /\ UNCHANGED <<uploads, assetFiles, acked, libraryVars>>

\* The insert fails when another process was faster: the request ends there.
Insert(p) ==
    /\ job[p] # NoAsset /\ job[p].at = "insert"
    /\ assetRows' = assetRows \cup {job[p].digest}
    /\ Works(p, IF job[p].digest \in assetRows THEN NoAsset
                ELSE [at |-> "mirror", digest |-> job[p].digest])
    /\ UNCHANGED <<uploads, assetFiles, library, mirrorRows, acked, cut>>

\* save_asset_async: an upsert in PostgreSQL; locally the row is read again.
Mirror(p) ==
    /\ job[p] # NoAsset /\ job[p].at = "mirror"
    /\ mirrorRows' = IF Mirrored THEN mirrorRows \cup {job[p].digest} ELSE mirrorRows
    /\ Works(p, NoAsset)
    /\ UNCHANGED <<uploads, assetFiles, library, assetRows, acked, cut>>

-----------------------------------------------------------------------------
\* A process dies; a file it was copying stays as it is.
AssetServerDies(p) ==
    /\ job[p] # NoAsset
    /\ cut' = IF job[p].at = "copy" THEN cut \cup {job[p].digest} ELSE cut
    /\ Works(p, NoAsset)
    /\ UNCHANGED <<uploads, assetFiles, library, assetRows, mirrorRows, acked>>

AssetNext ==
    \E p \in AssetServers :
        \/ \E kind \in Kinds : Upload(p, kind)
        \/ \E id \in acked : Delete(p, id) \/ Import(p, id)
        \/ Describe(p) \/ Unlink(p) \/ StartCopy(p) \/ Copy(p)
        \/ LookUp(p) \/ Insert(p) \/ Mirror(p)
        \/ AssetServerDies(p)

AssetSpec == AssetInit /\ [][AssetNext]_assetVars

-----------------------------------------------------------------------------
Copying(d) == \E p \in AssetServers : CopiedBy(p, d)

\* Every row of the library stands for a whole file, unless a copy is under way
\* or was cut short by a crash: whoever found the file there may record it, and
\* a deletion in the store takes nothing from the library.
RecordedFileIsWhole ==
    \A d \in assetRows \cup mirrorRows : d \in cut \/ Copying(d) \/ library[d] = "whole"
=============================================================================
