------------------------ MODULE MCSitemapTraversal -------------------------
EXTENDS SitemapTraversal

\* The root lists a urlset (1), an index (2) and a sitemap of another origin
\* (5); the index lists a urlset (3) and an index that is too deep (4).
MCParent == <<0, 0, 2, 2, 0>>
=============================================================================
