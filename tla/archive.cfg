SPECIFICATION Spec
CONSTANTS
  p = p  q = q  again = again  gone = gone  o1 = o1  o2 = o2  o3 = o3
  up = up  uq = uq  um = um  h = h  k = k
  Captures = {p, q, again, gone}
  Urls = {up, uq, um}
  Hashes = {h, k}
  UrlOf <- Url
  HashOf <- Hash
  Order <- Sorted
  OldCaptures = {o1, o2, o3}
  OldWalk <- Older
  Collections <- Walks
  TimeOf <- Times
  RedirectTo <- Target
  MaxRedirects = 2
  MaxStarts = 1
  None = None  Empty = Empty
INVARIANTS IndexedReadsBack PagesCoverIndex   
