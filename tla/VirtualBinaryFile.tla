-------------------------- MODULE VirtualBinaryFile --------------------------
(***************************************************************************)
(* Common::VirtualFileUtil::VirtualBinaryFile (src/common/virtual_file_util *)
(* .h and .cpp): an in-memory file, a byte vector with one read/write       *)
(* position.  The bytes themselves are left out: the properties are about  *)
(* which bytes an access touches, so the vector is its size.               *)
(*                                                                         *)
(* std::size_t arithmetic is kept modulo 2^Width.  The templated wrappers  *)
(* (ReadObject, ReadArray, ReadVector and their Write twins) all reach     *)
(* ReadBytes / WriteBytes with sizeof(T) and an element count; those are   *)
(* the inputs of the two actions.                                          *)
(***************************************************************************)
EXTENDS Naturals

CONSTANTS
    Width,          \* bits of std::size_t, scaled down
    PreallocSizes,  \* sizes passed to VirtualBinaryFile(preallocated_size)
    ElemSizes,      \* sizeof(T) of the element types callers use
    Counts,         \* element counts callers pass
    MaxSize         \* bound on the vector's size

ASSUME Width \in Nat \ {0} /\ PreallocSizes \subseteq 0..MaxSize

SizeT == 2^Width

VARIABLES
    m_file_storage,                   \* the vector's size
    m_file_storage_current_position,  \* the read/write position
    access                            \* the last ReadBytes or WriteBytes

vars == <<m_file_storage, m_file_storage_current_position, access>>

pos == m_file_storage_current_position

NoAccess == [kind |-> "none", start |-> 0, bytes |-> 0, elems |-> 0,
             copied |-> 0, sizeAt |-> 0, returned |-> 0]

TypeOK ==
    /\ m_file_storage \in 0..MaxSize
    /\ pos \in 0..(SizeT - 1)
    /\ access.kind \in {"none", "read", "write"}

\* VirtualBinaryFile() calls VirtualBinaryFile(0) as a statement: that
\* builds and drops a temporary, so this object's vector is empty and its
\* position is never initialized (any std::size_t).
\* VirtualBinaryFile(n): n zero bytes, position 0.
Init ==
    /\ \/ /\ m_file_storage = 0
          /\ m_file_storage_current_position \in 0..(SizeT - 1)
       \/ /\ m_file_storage \in PreallocSizes
          /\ m_file_storage_current_position = 0
    /\ access = NoAccess

\* RequestExceedsFileSize, in std::size_t.
RequestExceedsFileSize(length_in_bytes) ==
    (pos + length_in_bytes) % SizeT > m_file_storage

\* ReadBytes<T>(data, length): length_in_bytes = sizeof(T) * length; a
\* request past the end returns SIZE_MAX; otherwise the bytes from the
\* position on are copied out, the position advances, and length returns.
ReadBytes(es, length) ==
    LET length_in_bytes == (es * length) % SizeT IN
    \/ /\ RequestExceedsFileSize(length_in_bytes)
       /\ access' = [NoAccess EXCEPT !.kind = "read", !.returned = SizeT - 1]
       /\ UNCHANGED <<m_file_storage, m_file_storage_current_position>>
    \/ /\ ~RequestExceedsFileSize(length_in_bytes)
       /\ m_file_storage_current_position' = (pos + length_in_bytes) % SizeT
       /\ access' = [kind |-> "read", start |-> pos, bytes |-> es * length,
                     elems |-> length, copied |-> length_in_bytes,
                     sizeAt |-> m_file_storage, returned |-> length]
       /\ UNCHANGED m_file_storage

\* WriteBytes<T>(data, length): the bytes are inserted at the position
\* (the vector grows; nothing is overwritten) and the position advances.
WriteBytes(es, length) ==
    LET length_in_bytes == (es * length) % SizeT IN
    /\ m_file_storage + length_in_bytes <= MaxSize
    /\ m_file_storage' = m_file_storage + length_in_bytes
    /\ m_file_storage_current_position' = (pos + length_in_bytes) % SizeT
    /\ access' = [kind |-> "write", start |-> pos, bytes |-> es * length,
                  elems |-> length, copied |-> length_in_bytes,
                  sizeAt |-> m_file_storage, returned |-> length]

\* Resize(size): the vector takes the new size; a position past it is
\* pulled back to the new size.
Resize(size) ==
    /\ m_file_storage' = size
    /\ m_file_storage_current_position' = IF size < pos THEN size ELSE pos
    /\ UNCHANGED access

ResetReadWritePosition ==
    /\ m_file_storage_current_position' = 0
    /\ UNCHANGED <<m_file_storage, access>>

Next ==
    \/ \E es \in ElemSizes, n \in Counts : ReadBytes(es, n) \/ WriteBytes(es, n)
    \/ \E size \in 0..MaxSize : Resize(size)
    \/ ResetReadWritePosition

Spec == Init /\ [][Next]_vars

\* An access that reports success (returns the element count it was asked
\* for) moved all sizeof(T) * count bytes, and at a place inside the file:
\* a read's bytes all lie within the vector (ReadBytes's
\* RequestExceedsFileSize check), and a write inserts at a position no
\* further than the vector's end (WriteBytes's insert at begin() + position
\* has no check of its own, so the position must never be past the end).
AccessIsExact ==
    access.kind # "none" /\ access.returned = access.elems =>
        /\ access.copied = access.bytes
        /\ access.kind = "read" => access.start + access.bytes <= access.sizeAt
        /\ access.kind = "write" => access.start <= access.sizeAt

=============================================================================
