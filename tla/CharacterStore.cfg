CONSTANTS
  t1 = t1
  t2 = t2
  t3 = t3
  v1 = v1
  v2 = v2
  i1 = i1
  i2 = i2
  i3 = i3
  i4 = i4
  i5 = i5
  Threads = {t1, t2, t3}
  States = {v1, v2}
  Inodes = {i1, i2, i3, i4, i5}
  DiskFull = FALSE
  Nothing = Nothing
SPECIFICATION StoreSpec
INVARIANT NeverTruncated
PROPERTY ImplementsFile
SYMMETRY Sym
